---- MODULE Spec2Model ----
(***************************************************************************)
(* Model of the simon-game-app backend: the room directory (GameService),  *)
(* the Simon game engine (simonLogic) and the socket orchestrator          *)
(* (gameHandler) with its timers.  One room code is modelled; a room that  *)
(* was deleted stays absent.                                               *)
(***************************************************************************)
EXTENDS Integers, Sequences, FiniteSets, Bags, TLC

\* ------------------------------------------------------------------------
\* Bounds of the model (not program constants)
\* ------------------------------------------------------------------------
\* player ids the HTTP layer may hand out in the orchestrator specification
MaxIds == 2
\* player ids issued in SpecCleanup
CleanMaxIds == 2
\* latest time of day of Date.now() in SpecCleanup, on one of two days
CleanMaxClock == 240000
\* player ids the directory may hand out in the directory specification
SvcMaxIds == 5
\* values of Date.now() / performance.now() seen by the handlers: 1..MaxTime
MaxTime == 1
\* values of Date.now() / performance.now() in the engine specification
EngineMaxTime == 2
\* values Date.now() may take when initializeSimonGame seeds the generator
MaxSeed == 0
\* largest Date.now() value of a game start in SpecRooms
RoomsMaxSeed == 2
\* number of games (calls of initializeSimonGame) explored per room
MaxGames == 1
EndgamePlayers == 3
EndgameMessages == 1
CountMaxGames == 2
\* players of the states the engine specification starts from
EnginePlayers == 2
\* connections opened to the server in the lobby specification
MaxSockets == 2
\* connections ever opened in SpecGrace
GraceMaxSockets == 3
\* taps and legacy submissions the server accepts from playing players
MaxMessages == 3
\* accepted legacy submissions in SpecRace
RaceMaxMessages == 5
\* milliseconds per unit of the timers' clock (delays are rounded up to units)
TimeUnit == 1000
\* largest score of the states the engine specification starts from
EngineMaxScore == 1

\* ------------------------------------------------------------------------
\* Program constants
\* ------------------------------------------------------------------------
MAX_PLAYERS == 4
DISCONNECT_GRACE_MS == 180000
ROOM_MAX_AGE_MS == 86400000
MAX_CYCLES == 5
TIMEOUT_MS == 20000
INITIAL_SEQUENCE_LENGTH == 1
SHOW_COLOR_DURATION_MS == 600
SHOW_COLOR_GAP_MS == 200
TEMPO_CYCLE_3_DURATION_MS == 450
TEMPO_CYCLE_3_GAP_MS == 150
TEMPO_CYCLE_5_DURATION_MS == 300
TEMPO_CYCLE_5_GAP_MS == 100
\* delays written as literals in gameHandler
COUNTDOWN_INTERVAL_MS == 1000
FIRST_SHOW_DELAY_MS == 500
SEQUENCE_SETTLE_MS == 500
INPUT_ENABLE_DELAY_MS == 500
ROUND_PAUSE_MS == 3000
COLORS == <<"red", "blue", "yellow", "green">>

\* null / undefined
None == 0
Undef == -1
NoRoom == [absent |-> TRUE]
NoState == [gameType |-> "null"]
NoCall == [op |-> "none"]
Times == 1..MaxTime
FinishTimes == {Undef} \cup (0..MaxTime)
Seeds == 0..MaxSeed
EngineSeeds == 0..1

Range(s) == {s[i] : i \in DOMAIN s}
Min(S) == CHOOSE x \in S : \A y \in S : x <= y

VARIABLES
  room,               \* the directory entry of the modelled room code
  peer,               \* the directory entry of another room code
  clock,              \* Date.now() of the directory sweep (SpecCleanup)
  sequenceSeed,       \* simonLogic's module-level generator state
  sockets,            \* the connections and their session fields
  timers,             \* bag of pending game timers, each with the units until it is due
  simonTimeouts,      \* registry entry of the room's input-deadline timeout
  dtimers,            \* bag of pending disconnect timers
  disconnectTimeouts, \* registry: player id -> registered disconnect timer
  emits,              \* the events the last handler emitted, in order
  call,               \* the last directory/engine call observed: op, arg, ret
  hist                \* bookkeeping: games started, round results and entries per round

vars == <<room, peer, clock, sequenceSeed, sockets, timers, simonTimeouts, dtimers,
          disconnectTimeouts, emits, call, hist>>

\* ------------------------------------------------------------------------
\* GameService: the room directory (one room code)
\* ------------------------------------------------------------------------
Statuses == {"waiting", "countdown", "active", "finished"}
exists(r) == r # NoRoom
indexOf(r, playerId) ==
  IF \E i \in DOMAIN r.players : r.players[i].id = playerId
  THEN CHOOSE i \in DOMAIN r.players : r.players[i].id = playerId
  ELSE 0
hasPlayer(r, playerId) == exists(r) /\ indexOf(r, playerId) # 0
getPlayer(r, playerId) == r.players[indexOf(r, playerId)]
hosts(r) == {i \in DOMAIN r.players : r.players[i].isHost}
RemoveAt(s, i) == SubSeq(s, 1, i - 1) \o SubSeq(s, i + 1, Len(s))

newPlayer(id, isHost) ==
  [id |-> id, isHost |-> isHost, socketId |-> None, connected |-> FALSE]

\* createRoom(hostInfo), uuid = id
createRoom(id) ==
  [players |-> <<newPlayer(id, TRUE)>>, status |-> "waiting", gameState |-> NoState]

\* mutant of joinRoomError: the capacity test is off by one (> for >=)
joinRoomErrorOffByOne(r) ==
  IF ~exists(r) THEN "Room not found"
  ELSE IF r.status # "waiting" THEN "Game already in progress"
  ELSE IF Len(r.players) > MAX_PLAYERS THEN "Room is full"
  ELSE "ok"

\* the error joinRoom throws, or "ok"
joinRoomError(r) ==
  IF ~exists(r) THEN "Room not found"
  ELSE IF r.status # "waiting" THEN "Game already in progress"
  ELSE IF Len(r.players) >= MAX_PLAYERS THEN "Room is full"
  ELSE "ok"

\* mutant of joinRoom: the new player is put in front of the list
joinRoomPrepend(r, id) ==
  IF joinRoomError(r) = "ok"
  THEN [r EXCEPT !.players = <<newPlayer(id, FALSE)>> \o @]
  ELSE r

\* joinRoom(gameCode, playerInfo), uuid = id: the room afterwards
joinRoom(r, id) ==
  IF joinRoomError(r) = "ok"
  THEN [r EXCEPT !.players = Append(@, newPlayer(id, FALSE))]
  ELSE r

updateRoomStatus(r, status) == IF exists(r) THEN [r EXCEPT !.status = status] ELSE r

updateGameState(r, gs) == IF exists(r) THEN [r EXCEPT !.gameState = gs] ELSE r

updateSocketId(r, playerId, socketId) ==
  IF hasPlayer(r, playerId)
  THEN [r EXCEPT !.players[indexOf(r, playerId)].socketId = socketId,
                 !.players[indexOf(r, playerId)].connected = TRUE]
  ELSE r

markPlayerDisconnected(r, playerId) ==
  IF hasPlayer(r, playerId)
  THEN [r EXCEPT !.players[indexOf(r, playerId)].connected = FALSE,
                 !.players[indexOf(r, playerId)].socketId = None]
  ELSE r

\* mutant of removePlayer: the host flag goes to the last remaining player
removePlayerPromoteLast(r, playerId) ==
  IF ~hasPlayer(r, playerId) THEN r
  ELSE LET i == indexOf(r, playerId)
           removedPlayer == r.players[i]
           rest == RemoveAt(r.players, i)
       IN IF Len(rest) = 0 THEN NoRoom
          ELSE IF removedPlayer.isHost
               THEN [r EXCEPT !.players = [rest EXCEPT ![Len(rest)].isHost = TRUE]]
               ELSE [r EXCEPT !.players = rest]

\* removePlayer: the room afterwards (NoRoom when it was deleted)
removePlayer(r, playerId) ==
  IF ~hasPlayer(r, playerId) THEN r
  ELSE LET i == indexOf(r, playerId)
           removedPlayer == r.players[i]
           rest == RemoveAt(r.players, i)
       IN IF Len(rest) = 0 THEN NoRoom
          ELSE IF removedPlayer.isHost
               THEN [r EXCEPT !.players = [rest EXCEPT ![1].isHost = TRUE]]
               ELSE [r EXCEPT !.players = rest]

\* removePlayer: its return value
removePlayerRet(r, playerId) == hasPlayer(r, playerId)

removeIfStillDisconnected(r, playerId) ==
  IF hasPlayer(r, playerId) /\ ~getPlayer(r, playerId).connected
  THEN removePlayer(r, playerId)
  ELSE r

removeIfStillDisconnectedRet(r, playerId) ==
  hasPlayer(r, playerId) /\ ~getPlayer(r, playerId).connected /\ removePlayerRet(r, playerId)

\* ------------------------------------------------------------------------
\* simonLogic: sequence generation
\* ------------------------------------------------------------------------
\* seededRandom: the new value of sequenceSeed
seededRandom(seed) == (seed * 9301 + 49297) % 233280

\* Math.floor(seededRandom() * COLORS.length) for the NEW seed value
randomIndex(newSeed) == (newSeed * Len(COLORS)) \div 233280

RECURSIVE generateSequence(_, _)
\* generateSequence(length) from generator state seed: <<colors, final seed>>
generateSequence(length, seed) ==
  IF length = 0 THEN <<<< >>, seed>>
  ELSE LET s1 == seededRandom(seed)
           rest == generateSequence(length - 1, s1)
       IN <<(<<COLORS[randomIndex(s1) + 1]>>) \o rest[1], rest[2]>>

\* mutant of extendSequence: the new colour is put in front of the sequence
extendSequencePrepend(currentSequence, seed) ==
  <<COLORS[randomIndex(seededRandom(seed)) + 1]>> \o currentSequence

\* extendSequence(currentSequence) with the generator at seed
extendSequence(currentSequence, seed) ==
  Append(currentSequence, COLORS[randomIndex(seededRandom(seed)) + 1])

\* ------------------------------------------------------------------------
\* simonLogic: game state
\* ------------------------------------------------------------------------
\* ids of the players of a game state, in key (insertion) order
PlayerIds(gs) == Range(gs.order)
activePlayers(gs) == {p \in PlayerIds(gs) : gs.playerStates[p].status = "playing"}
Submitted(gs) == {gs.submissions[i].playerId : i \in DOMAIN gs.submissions}
hasSubmission(gs, p) == p \in Submitted(gs)

\* initializeSimonGame(players) when Date.now() = now
initializeSimonGame(players, now) ==
  LET ids == [i \in DOMAIN players |-> players[i].id]
      g == generateSequence(INITIAL_SEQUENCE_LENGTH, now)
  IN [gameType |-> "simon",
      phase |-> "showing_sequence",
      sequence |-> g[1],
      round |-> 1,
      order |-> ids,
      playerStates |-> [p \in Range(ids) |->
          [status |-> "playing", currentInputIndex |-> 0, eliminatedAtRound |-> None]],
      timeoutAt |-> None,
      timerStartedAt |-> None,
      scores |-> [p \in Range(ids) |-> 0],
      submissions |-> << >>,
      roundWinner |-> None,
      winnerId |-> None]

validateInput(gs, playerId, color, inputIndex) ==
  IF playerId \notin PlayerIds(gs) \/ gs.playerStates[playerId].currentInputIndex # inputIndex
  THEN FALSE
  ELSE inputIndex + 1 \in DOMAIN gs.sequence /\ color = gs.sequence[inputIndex + 1]

validateSequence(gs, submittedSequence) == submittedSequence = gs.sequence

\* the sort key of a correct submission: finishTime || timestamp
sortKey(s) == IF s.finishTime = Undef \/ s.finishTime = 0 THEN s.timestamp ELSE s.finishTime

\* index in subs of sorted[0]: stable sort, so the first submission with the least key
fastestIndex(subs) ==
  LET correct == {i \in DOMAIN subs : subs[i].isCorrect}
      least == Min({sortKey(subs[i]) : i \in correct})
  IN Min({i \in correct : sortKey(subs[i]) = least})

\* players eliminated by processRoundSubmissions: wrong submission, still playing
roundEliminated(gs) ==
  {p \in PlayerIds(gs) : gs.playerStates[p].status = "playing" /\
     \E i \in DOMAIN gs.submissions :
        gs.submissions[i].playerId = p /\ ~gs.submissions[i].isCorrect}

\* mutant of processRoundSubmissions: every correct submission scores
processRoundSubmissionsAllScore(gs) ==
  LET subs == gs.submissions
      elim == roundEliminated(gs)
      hasCorrect == \E i \in DOMAIN subs : subs[i].isCorrect
      w == IF hasCorrect THEN subs[fastestIndex(subs)].playerId ELSE None
      winners == {subs[i].playerId : i \in {j \in DOMAIN subs : subs[j].isCorrect}}
      newScores == [p \in DOMAIN gs.scores |->
                      IF p \in winners THEN gs.scores[p] + 1 ELSE gs.scores[p]]
      newStates == [p \in PlayerIds(gs) |->
                     IF p \in elim
                     THEN [gs.playerStates[p] EXCEPT !.status = "eliminated",
                                                    !.eliminatedAtRound = gs.round]
                     ELSE gs.playerStates[p]]
  IN [gameState |-> [gs EXCEPT !.playerStates = newStates,
                               !.scores = newScores,
                               !.roundWinner = w,
                               !.submissions = << >>],
      roundWinner |-> IF hasCorrect THEN [playerId |-> w, score |-> newScores[w]] ELSE NoCall,
      eliminations |-> << >>]

\* processRoundSubmissions: [gameState, roundWinner, eliminations]
processRoundSubmissions(gs) ==
  LET subs == gs.submissions
      elim == roundEliminated(gs)
      hasCorrect == \E i \in DOMAIN subs : subs[i].isCorrect
      w == IF hasCorrect THEN subs[fastestIndex(subs)].playerId ELSE None
      newScores == IF hasCorrect
                   THEN [p \in DOMAIN gs.scores \cup {w} |->
                          IF p = w THEN (IF p \in DOMAIN gs.scores THEN gs.scores[p] ELSE 0) + 1
                          ELSE gs.scores[p]]
                   ELSE gs.scores
      newStates == [p \in PlayerIds(gs) |->
                     IF p \in elim
                     THEN [gs.playerStates[p] EXCEPT !.status = "eliminated",
                                                    !.eliminatedAtRound = gs.round]
                     ELSE gs.playerStates[p]]
      elimSeq == SelectSeq(subs, LAMBDA s : ~s.isCorrect /\ s.playerId \in elim)
  IN [gameState |-> [gs EXCEPT !.playerStates = newStates,
                               !.scores = newScores,
                               !.roundWinner = w,
                               !.submissions = << >>],
      roundWinner |-> IF hasCorrect THEN [playerId |-> w, score |-> newScores[w]] ELSE NoCall,
      eliminations |-> [i \in DOMAIN elimSeq |->
                          [playerId |-> elimSeq[i].playerId, reason |-> "wrong_sequence"]]]

\* mutant of haveAllPlayersSubmitted: the "at least one active player" test is missing
haveAllPlayersSubmittedNoGuard(gs) ==
  Len(gs.submissions) >= Cardinality(activePlayers(gs))

haveAllPlayersSubmitted(gs) ==
  Cardinality(activePlayers(gs)) > 0 /\ Len(gs.submissions) >= Cardinality(activePlayers(gs))

\* mutant of advanceToNextRound: the sequence is not extended
advanceToNextRoundSameSequence(gs, seed) ==
  [gs EXCEPT !.phase = "showing_sequence",
             !.round = gs.round + 1,
             !.playerStates = [p \in PlayerIds(gs) |->
                                 [gs.playerStates[p] EXCEPT !.currentInputIndex = 0]],
             !.submissions = << >>,
             !.roundWinner = None]

\* advanceToNextRound with the generator at seed (the caller stores the new seed)
advanceToNextRound(gs, seed) ==
  [gs EXCEPT !.phase = "showing_sequence",
             !.sequence = extendSequence(gs.sequence, seed),
             !.round = gs.round + 1,
             !.playerStates = [p \in PlayerIds(gs) |->
                                 [gs.playerStates[p] EXCEPT !.currentInputIndex = 0]],
             !.submissions = << >>,
             !.roundWinner = None]

eliminatePlayer(gs, playerId, round) ==
  IF playerId \in PlayerIds(gs)
  THEN [gs EXCEPT !.playerStates[playerId].status = "eliminated",
                  !.playerStates[playerId].eliminatedAtRound = round]
  ELSE gs

\* mutant of shouldGameEnd: without the solo clause
shouldGameEndNoSolo(gs) ==
  IF gs.round >= MAX_CYCLES THEN TRUE
  ELSE Cardinality(activePlayers(gs)) <= 1

shouldGameEnd(gs) ==
  IF gs.round >= MAX_CYCLES THEN TRUE
  ELSE IF Cardinality(PlayerIds(gs)) = 1 THEN Cardinality(activePlayers(gs)) = 0
  ELSE Cardinality(activePlayers(gs)) <= 1

updatePlayerProgress(gs, playerId) ==
  IF playerId \in PlayerIds(gs)
  THEN [gs EXCEPT !.playerStates[playerId].currentInputIndex = @ + 1]
  ELSE gs

\* ------------------------------------------------------------------------
\* gameHandler: timers, registries and events
\* ------------------------------------------------------------------------
BagAdd(b, t) == b (+) SetToBag({t})
\* a delay of ms milliseconds in units of the timers' clock
Units(ms) == (ms + TimeUnit - 1) \div TimeUnit
\* setTimeout / setInterval: the timer record t due after ms milliseconds
After(ms, t) == [x \in DOMAIN t \cup {"due"} |-> IF x = "due" THEN Units(ms) ELSE t[x]]
\* one unit of time passes for the timer t
Older(t) == [t EXCEPT !.due = @ - 1]
Younger(t) == [t EXCEPT !.due = @ + 1]
\* one unit of time passes for every timer of the bag
Elapsed(bag) == [x \in {Older(t) : t \in BagToSet(bag)} |-> bag[Younger(x)]]
BagDel(b, t) == b (-) SetToBag({t})
Ev(name) == [ev |-> name]
ErrorToSender(message) == [ev |-> "error", to |-> "sender", message |-> message]

\* a registry entry: the handle of timer t; live is false once that timer fired
Handle(t) == [timer |-> t, live |-> TRUE]
NoHandle == NoCall

\* clearTimeout(handle): the bag of pending timers afterwards
clearTimeout(bag, handle) ==
  IF handle # NoHandle /\ handle.live THEN BagDel(bag, handle.timer) ELSE bag

\* The pending timer t fires.  Timers with equal closures are one bag element, so
\* whether the one that fires is the registered one (asReg) is a choice: it can be
\* the registered one when the registry holds a live handle of t, and another one
\* when there is a second copy of t or the registry does not hold a live handle of t.
CanFire(bag, handle, t, asReg) ==
  /\ BagIn(t, bag)
  /\ t.due = 0
  /\ LET isReg == handle # NoHandle /\ handle.live /\ handle.timer = t
     IN IF asReg THEN isReg ELSE (~isReg \/ CopiesIn(t, bag) >= 2)

\* the registry entry after its timer fired without the callback touching the registry
Fired(handle, asReg) == IF asReg THEN [handle EXCEPT !.live = FALSE] ELSE handle

\* bookkeeping: the players ps got an entry in the submissions map in the
\* current round of the current game
Recorded(h, ps) == [h EXCEPT !.recorded = @ \cup ps]

\* bookkeeping: one more simon:round_result for round r of the current game
CountResult(h, r) ==
  [h EXCEPT !.results = [x \in DOMAIN h.results \cup {r} |->
      IF x = r THEN (IF r \in DOMAIN h.results THEN (IF h.results[r] >= 2 THEN 2 ELSE h.results[r] + 1) ELSE 1)
      ELSE h.results[x]]]

\* ------------------------------------------------------------------------
\* gameHandler: the Simon round machinery
\* ------------------------------------------------------------------------
simonState(r) == exists(r) /\ r.status = "active" /\ r.gameState # NoState

\* mutant of topScorer: the lowest score comes first
topScorerLowest(gs) ==
  LET best == CHOOSE i \in DOMAIN gs.order :
                 /\ \A j \in DOMAIN gs.order : gs.scores[gs.order[j]] >= gs.scores[gs.order[i]]
                 /\ \A j \in 1..(i - 1) : gs.scores[gs.order[j]] > gs.scores[gs.order[i]]
  IN [playerId |-> gs.order[best], score |-> gs.scores[gs.order[best]]]

\* playerScores[0] of finishSimonGame: highest score, first in key order on a tie
topScorer(gs) ==
  LET best == CHOOSE i \in DOMAIN gs.order :
                 /\ \A j \in DOMAIN gs.order : gs.scores[gs.order[j]] <= gs.scores[gs.order[i]]
                 /\ \A j \in 1..(i - 1) : gs.scores[gs.order[j]] < gs.scores[gs.order[i]]
  IN [playerId |-> gs.order[best], score |-> gs.scores[gs.order[best]]]

\* finishSimonGame(io, gameCode, gameState, room): [room, emits]
finishSimonGame(r, gs) ==
  [room |-> updateRoomStatus(r, "finished"),
   emits |-> <<[ev |-> "simon:game_finished", winner |-> topScorer(gs)]>>]

\* processSimonRound(io, gameCode): [room, add (timers scheduled), emits, processed]
processSimonRound(r) ==
  IF ~simonState(r)
  THEN [room |-> r, add |-> EmptyBag, emits |-> << >>, processed |-> FALSE]
  ELSE LET res == processRoundSubmissions(r.gameState)
           newState == res.gameState
       IN [room |-> updateGameState(r, newState),
           add |-> IF shouldGameEnd(newState)
                   THEN SetToBag({After(ROUND_PAUSE_MS,
                                        [kind |-> "finish", gameState |-> newState])})
                   ELSE SetToBag({After(ROUND_PAUSE_MS, [kind |-> "advance"])}),
           emits |-> [i \in DOMAIN res.eliminations |->
                        [ev |-> "simon:player_eliminated",
                         playerId |-> res.eliminations[i].playerId,
                         reason |-> res.eliminations[i].reason]]
                     \o <<[ev |-> "simon:round_result",
                           roundWinner |-> IF res.roundWinner = NoCall THEN NoCall
                                           ELSE [playerId |-> res.roundWinner.playerId],
                           eliminations |-> res.eliminations,
                           scores |-> newState.scores,
                           playerStatuses |-> [p \in PlayerIds(newState) |->
                                                 newState.playerStates[p].status]]>>,
           processed |-> TRUE]

\* the bookkeeping after processSimonRound ran on room r
histAfterRound(h, r) == IF simonState(r) THEN CountResult(h, r.gameState.round) ELSE h

\* ------------------------------------------------------------------------
\* gameHandler: handlers and timer callbacks as outcomes.  An outcome holds the
\* values a handler leaves in the room, the game timers, the simonTimeouts
\* registry, the generator, the emitted events and the bookkeeping.
\* ------------------------------------------------------------------------
Same ==
  [room |-> room, timers |-> timers, simonTimeouts |-> simonTimeouts,
   seed |-> sequenceSeed, emits |-> << >>, call |-> NoCall, hist |-> hist]

Apply(o) ==
  \E v \in {o} :
    /\ room' = v.room
    /\ timers' = v.timers
    /\ simonTimeouts' = v.simonTimeouts
    /\ sequenceSeed' = v.seed
    /\ emits' = v.emits
    /\ call' = v.call
    /\ hist' = v.hist

ConnFrame == UNCHANGED <<sockets, dtimers, disconnectTimeouts, peer, clock>>

IssuedIds == 1..(hist.nextId - 1)
AnyOpenSocket == \E i \in DOMAIN sockets : sockets[i].open
Countdowns == {t \in BagToSet(timers) : t.kind = "countdown"}

\* startCountdown(io, gameCode)
startCountdown(o) ==
  IF ~exists(o.room) \/ \A i \in DOMAIN o.room.players : ~o.room.players[i].connected
  THEN o
  ELSE [o EXCEPT !.room = updateRoomStatus(o.room, "countdown"),
                 !.timers = BagAdd(o.timers, After(COUNTDOWN_INTERVAL_MS,
                                                   [kind |-> "countdown", count |-> 3]))]

\* mutant of start_game: without the host check
start_gameAnyPlayer(playerId) ==
  IF ~exists(room) THEN [Same EXCEPT !.emits = <<ErrorToSender("Room not found")>>]
  ELSE IF room.status # "waiting"
  THEN [Same EXCEPT !.emits = <<ErrorToSender("Game already started")>>]
  ELSE startCountdown(Same)

\* socket.on('start_game')
start_game(playerId) ==
  IF ~exists(room) THEN [Same EXCEPT !.emits = <<ErrorToSender("Room not found")>>]
  ELSE IF ~(hasPlayer(room, playerId) /\ getPlayer(room, playerId).isHost)
  THEN [Same EXCEPT !.emits = <<ErrorToSender("Only host can start the game")>>]
  ELSE IF room.status # "waiting"
  THEN [Same EXCEPT !.emits = <<ErrorToSender("Game already started")>>]
  ELSE startCountdown(Same)

\* socket.on('restart_game')
restart_game(playerId) ==
  IF ~exists(room) THEN [Same EXCEPT !.emits = <<ErrorToSender("Room not found")>>]
  ELSE [Same EXCEPT !.room = [room EXCEPT !.status = "waiting", !.gameState = NoState],
                    !.emits = <<Ev("room_state_update"), Ev("game_restarted")>>]

\* one tick of the countdown interval t of startCountdown when Date.now() = now
countdownTick(t, now) ==
  LET rest == BagDel(timers, t)
      tick == <<[ev |-> "countdown", count |-> t.count]>>
      gameState == initializeSimonGame(room.players, now)
  IN IF t.count # 0
     THEN [Same EXCEPT !.timers = BagAdd(rest, After(COUNTDOWN_INTERVAL_MS,
                                                    [kind |-> "countdown", count |-> t.count - 1])),
                       !.emits = tick]
     ELSE IF ~exists(room)
     THEN [Same EXCEPT !.timers = rest, !.emits = tick]
     ELSE [Same EXCEPT
             !.room = updateGameState(updateRoomStatus(room, "active"), gameState),
             !.seed = generateSequence(INITIAL_SEQUENCE_LENGTH, now)[2],
             !.timers = BagAdd(rest, After(FIRST_SHOW_DELAY_MS,
                                           [kind |-> "show", round |-> gameState.round,
                                            sequence |-> gameState.sequence])),
             !.emits = tick,
             !.hist = [hist EXCEPT !.game = @ + 1, !.results = [r \in {} |-> 0],
                                  !.seed = now, !.recorded = {}]]

\* the tempo of showSimonSequence: showDuration + showGap
tempo(round) ==
  IF round >= 5 THEN TEMPO_CYCLE_5_DURATION_MS + TEMPO_CYCLE_5_GAP_MS
  ELSE IF round >= 3 THEN TEMPO_CYCLE_3_DURATION_MS + TEMPO_CYCLE_3_GAP_MS
  ELSE SHOW_COLOR_DURATION_MS + SHOW_COLOR_GAP_MS

totalTime(gameState) == Len(gameState.sequence) * tempo(gameState.round)

\* showSimonSequence(io, gameCode, gameState): emits the reveal, schedules its end
showSimonSequence(o, gameState) ==
  [o EXCEPT !.timers = BagAdd(o.timers, After(totalTime(gameState) + SEQUENCE_SETTLE_MS,
                                              [kind |-> "complete"])),
            !.emits = o.emits \o <<[ev |-> "simon:show_sequence",
                                    round |-> gameState.round,
                                    sequence |-> gameState.sequence]>>]

\* the 500 ms timeout of startCountdown: showSimonSequence on the captured state
showTimer(t) == showSimonSequence([Same EXCEPT !.timers = BagDel(timers, t)], t)

\* the outer timeout of showSimonSequence
completeTimer(t) ==
  [Same EXCEPT !.timers = BagAdd(BagDel(timers, t), After(INPUT_ENABLE_DELAY_MS, [kind |-> "open"])),
               !.emits = <<Ev("simon:sequence_complete")>>]

\* the inner timeout of showSimonSequence: opens the input phase when Date.now() = now
openTimer(t, now) ==
  IF ~simonState(room) THEN [Same EXCEPT !.timers = BagDel(timers, t)]
  ELSE LET currentState == room.gameState
           deadline == After(TIMEOUT_MS, [kind |-> "deadline", game |-> hist.game,
                                          round |-> currentState.round])
       IN [Same EXCEPT
             !.room = updateGameState(room, [currentState EXCEPT
                                               !.phase = "player_input",
                                               !.timeoutAt = now + TIMEOUT_MS,
                                               !.timerStartedAt = now]),
             !.timers = BagAdd(BagDel(timers, t), deadline),
             !.simonTimeouts = Handle(deadline),
             !.emits = <<[ev |-> "simon:input_phase", round |-> currentState.round,
                          timeoutAt |-> now + TIMEOUT_MS]>>]

\* mutant of advanceSimonRound: without the check of the room status
advanceSimonRoundAnyStatus(t) ==
  IF ~(exists(room) /\ room.gameState # NoState) THEN [Same EXCEPT !.timers = BagDel(timers, t)]
  ELSE LET newState == advanceToNextRound(room.gameState, sequenceSeed)
       IN showSimonSequence(
            [Same EXCEPT !.room = updateGameState(room, newState),
                         !.seed = seededRandom(sequenceSeed),
                         !.timers = BagDel(timers, t),
                         !.hist = [hist EXCEPT !.recorded = {}]],
            newState)

\* advanceSimonRound(io, gameCode), the 3 s timeout of processSimonRound
advanceSimonRound(t) ==
  IF ~simonState(room) THEN [Same EXCEPT !.timers = BagDel(timers, t)]
  ELSE LET newState == advanceToNextRound(room.gameState, sequenceSeed)
       IN showSimonSequence(
            [Same EXCEPT !.room = updateGameState(room, newState),
                         !.seed = seededRandom(sequenceSeed),
                         !.timers = BagDel(timers, t),
                         !.hist = [hist EXCEPT !.recorded = {}]],
            newState)

\* the 3 s timeout of processSimonRound that ends the game
finishTimer(t) ==
  LET fin == finishSimonGame(room, t.gameState)
  IN [Same EXCEPT !.room = fin.room, !.timers = BagDel(timers, t), !.emits = fin.emits]

wrongSubmission(playerId, now) ==
  [playerId |-> playerId, sequence |-> << >>, timestamp |-> now, finishTime |-> Undef,
   isCorrect |-> FALSE]

\* the outcome o after processSimonRound ran on it
thenProcessRound(o) ==
  LET pr == processSimonRound(o.room)
  IN [o EXCEPT !.room = pr.room,
               !.timers = o.timers (+) pr.add,
               !.emits = o.emits \o pr.emits,
               !.hist = histAfterRound(o.hist, o.room)]

\* "Cancel timeout": clearTimeout of the registered handle and its removal
cancelSimonTimeout(o) ==
  [o EXCEPT !.timers = clearTimeout(o.timers, o.simonTimeouts),
            !.simonTimeouts = NoHandle]

\* mutant of maySubmit: without the check that the player is still playing
maySubmitAnyStatus(playerId) ==
  /\ simonState(room)
  /\ playerId \in PlayerIds(room.gameState)
  /\ ~hasSubmission(room.gameState, playerId)

\* the guards shared by simon:submit_input and simon:submit_sequence
maySubmit(playerId) ==
  /\ simonState(room)
  /\ playerId \in PlayerIds(room.gameState)
  /\ room.gameState.playerStates[playerId].status = "playing"
  /\ ~hasSubmission(room.gameState, playerId)

\* socket.on('simon:submit_sequence') when Date.now() = now
submit_sequence(playerId, sequence, now) ==
  IF ~maySubmit(playerId) THEN Same
  ELSE LET gs == room.gameState
           newState == [gs EXCEPT !.submissions = Append(@,
                          [playerId |-> playerId, sequence |-> sequence, timestamp |-> now,
                           finishTime |-> Undef, isCorrect |-> validateSequence(gs, sequence)])]
           all == haveAllPlayersSubmitted(newState)
           o == [Same EXCEPT !.room = updateGameState(room, newState),
                             !.emits = <<[ev |-> "simon:player_submitted", playerId |-> playerId]>>,
                             !.hist = Recorded(hist, {playerId}),
                             !.call = [op |-> "haveAllPlayersSubmitted", id |-> playerId,
                                       arg |-> newState, ret |-> all]]
       IN IF all THEN thenProcessRound(cancelSimonTimeout(o)) ELSE o

\* socket.on('simon:submit_input'), wrong tap
wrongInput(playerId, inputIndex, now) ==
  LET gs == room.gameState
      newState == [eliminatePlayer(gs, playerId, gs.round) EXCEPT
                     !.submissions = Append(@, wrongSubmission(playerId, now))]
      all == haveAllPlayersSubmitted(newState)
      o == [Same EXCEPT !.room = updateGameState(room, newState),
                        !.emits = <<[ev |-> "simon:input_wrong", playerId |-> playerId,
                                     index |-> inputIndex],
                                    [ev |-> "simon:player_eliminated", playerId |-> playerId,
                                     reason |-> "wrong_sequence"]>>,
                        !.hist = Recorded(hist, {playerId}),
                        !.call = [op |-> "haveAllPlayersSubmitted", id |-> playerId,
                                  arg |-> newState, ret |-> all]]
      fin == finishSimonGame(o.room, newState)
  IN IF all THEN thenProcessRound(o)
     ELSE IF shouldGameEnd(newState)
     THEN [o EXCEPT !.room = fin.room, !.emits = o.emits \o fin.emits]
     ELSE o

\* socket.on('simon:submit_input'), correct tap
correctInput(playerId, inputIndex, finishTime, now) ==
  LET progressed == updatePlayerProgress(room.gameState, playerId)
      correct == <<[ev |-> "simon:input_correct", playerId |-> playerId, index |-> inputIndex]>>
      newState == [progressed EXCEPT !.submissions = Append(@,
                     [playerId |-> playerId, sequence |-> progressed.sequence,
                      timestamp |-> now, finishTime |-> finishTime, isCorrect |-> TRUE])]
      all == haveAllPlayersSubmitted(newState)
      o == [Same EXCEPT !.room = updateGameState(room, newState),
                        !.emits = correct \o
                                  <<[ev |-> "simon:player_sequence_complete", playerId |-> playerId],
                                    [ev |-> "simon:player_submitted", playerId |-> playerId]>>,
                        !.hist = Recorded(hist, {playerId}),
                        !.call = [op |-> "haveAllPlayersSubmitted", id |-> playerId,
                                  arg |-> newState, ret |-> all]]
  IN IF progressed.playerStates[playerId].currentInputIndex < Len(progressed.sequence)
     THEN [Same EXCEPT !.room = updateGameState(room, progressed), !.emits = correct]
     ELSE IF all THEN thenProcessRound(cancelSimonTimeout(o)) ELSE o

\* the tap is the final correct tap of the player's sequence
completes(playerId, color, inputIndex) ==
  /\ maySubmit(playerId)
  /\ validateInput(room.gameState, playerId, color, inputIndex)
  /\ inputIndex + 1 >= Len(room.gameState.sequence)

\* socket.on('simon:submit_input') when Date.now() = now
submit_input(playerId, color, inputIndex, finishTime, now) ==
  IF ~maySubmit(playerId) THEN Same
  ELSE IF ~validateInput(room.gameState, playerId, color, inputIndex)
  THEN wrongInput(playerId, inputIndex, now)
  ELSE correctInput(playerId, inputIndex, finishTime, now)

\* the playing players without a submission, in key order
unsubmitted(gs) ==
  SelectSeq(gs.order, LAMBDA p : gs.playerStates[p].status = "playing" /\ ~hasSubmission(gs, p))

\* handleSimonTimeout(io, gameCode): the deadline timer t fires when Date.now() = now
handleSimonTimeout(t, asReg, now) ==
  IF ~simonState(room)
  THEN [Same EXCEPT !.timers = BagDel(timers, t),
                    !.simonTimeouts = Fired(simonTimeouts, asReg)]
  ELSE LET gs == room.gameState
           late == unsubmitted(gs)
           newState == [gs EXCEPT !.submissions =
                          @ \o [i \in DOMAIN late |-> wrongSubmission(late[i], now)]]
       IN thenProcessRound(
            [Same EXCEPT !.room = updateGameState(room, newState),
                         !.timers = BagDel(timers, t),
                         !.simonTimeouts = NoHandle,
                         !.emits = [i \in DOMAIN late |->
                                      [ev |-> "simon:timeout", playerId |-> late[i]]],
                         !.hist = Recorded(hist, Range(late))])

\* ------------------------------------------------------------------------
\* gameHandler: connections and the disconnect grace protocol
\* ------------------------------------------------------------------------
MapGet(m, k) == IF k \in DOMAIN m THEN m[k] ELSE NoHandle
MapSet(m, k, v) == [x \in DOMAIN m \cup {k} |-> IF x = k THEN v ELSE m[x]]
MapDel(m, k) == [x \in DOMAIN m \ {k} |-> m[x]]

\* the connection sid, opened if it is a new one
withSocket(sid) ==
  IF sid \in DOMAIN sockets THEN sockets
  ELSE Append(sockets, [open |-> TRUE, playerId |-> None, rejoined |-> FALSE])

\* a buffer or removal timeout of an earlier disconnect of playerId is pending
graceRunning(playerId) == \E t \in BagToSet(dtimers) : t.playerId = playerId

\* the connection sid bound to playerId; rejoined records (bookkeeping) that the
\* binding happened while a disconnect timeout of playerId was pending
bound(sid, playerId) ==
  [withSocket(sid) EXCEPT ![sid].playerId = playerId,
                          ![sid].rejoined = graceRunning(playerId)]

GameFrame == UNCHANGED <<timers, simonTimeouts, sequenceSeed, hist, peer, clock>>

\* socket.on('join_room_socket') on connection sid
join_room_socket(sid, playerId) ==
  /\ IF ~exists(room)
     THEN /\ emits' = <<ErrorToSender("Room not found")>>
          /\ sockets' = withSocket(sid)
          /\ room' = room
     ELSE IF ~hasPlayer(room, playerId)
     THEN /\ emits' = <<ErrorToSender("Player not in room")>>
          /\ sockets' = withSocket(sid)
          /\ room' = room
     ELSE /\ room' = updateSocketId(room, playerId, sid)
          /\ sockets' = bound(sid, playerId)
          /\ emits' = <<Ev("room_state"), Ev("room_state_update"), Ev("player_joined")>>
  /\ call' = NoCall
  /\ UNCHANGED <<dtimers, disconnectTimeouts>>
  /\ GameFrame

\* handleAutoReconnect(io, socket): a new connection whose session token names playerId
handleAutoReconnect(playerId) ==
  LET sid == Len(sockets) + 1
  IN /\ IF hasPlayer(room, playerId)
        THEN /\ room' = updateSocketId(room, playerId, sid)
             /\ sockets' = bound(sid, playerId)
             /\ dtimers' = clearTimeout(dtimers, MapGet(disconnectTimeouts, playerId))
             /\ disconnectTimeouts' = MapDel(disconnectTimeouts, playerId)
             /\ emits' = <<Ev("player_reconnected"), Ev("room_state")>>
        ELSE /\ sockets' = withSocket(sid)
             /\ emits' = << >>
             /\ UNCHANGED <<room, dtimers, disconnectTimeouts>>
     /\ call' = NoCall
     /\ GameFrame

\* socket.on('leave_room') on connection sid
leave_room(sid, playerId) ==
  /\ room' = removePlayer(room, playerId)
  /\ emits' = IF ~removePlayerRet(room, playerId) THEN << >>
              ELSE IF exists(removePlayer(room, playerId))
              THEN <<Ev("player_left"), Ev("room_state_update")>>
              ELSE <<Ev("player_left"), Ev("room_closed")>>
  /\ sockets' = [sockets EXCEPT ![sid].playerId = None]
  /\ call' = NoCall
  /\ UNCHANGED <<dtimers, disconnectTimeouts>>
  /\ GameFrame

\* the handles disconnectTimeouts holds for the room: all are cleared on host drop
registered == {disconnectTimeouts[k].timer : k \in DOMAIN disconnectTimeouts}

\* handleDisconnect(io, socket): connection sid drops
handleDisconnect(sid) ==
  LET playerId == sockets[sid].playerId
      isHost == hasPlayer(room, playerId) /\ getPlayer(room, playerId).isHost
      bufferTimeout == [kind |-> "buffer", playerId |-> playerId, isHost |-> isHost]
  IN /\ sockets' = [sockets EXCEPT ![sid].open = FALSE]
     /\ IF playerId = None \/ ~exists(room)
        THEN /\ emits' = << >>
             /\ UNCHANGED <<room, dtimers, disconnectTimeouts>>
        ELSE IF isHost /\ room.status = "active"
        THEN /\ emits' = <<Ev("host_disconnected")>>
             /\ room' = NoRoom
             /\ dtimers' = dtimers (-) SetToBag(registered)
             /\ disconnectTimeouts' = << >>
        ELSE /\ emits' = << >>
             /\ room' = room
             /\ dtimers' = BagAdd(dtimers, bufferTimeout)
             /\ disconnectTimeouts' = MapSet(disconnectTimeouts, playerId, Handle(bufferTimeout))
     /\ call' = NoCall
     /\ GameFrame

\* the room after the host transfer of the buffer timeout of playerId
transferHost(r, playerId) ==
  LET candidates == {i \in DOMAIN r.players :
                        r.players[i].id # playerId /\ r.players[i].connected}
  IN IF Len(r.players) > 1 /\ candidates # {}
     THEN [r EXCEPT !.players[Min(candidates)].isHost = TRUE]
     ELSE r

\* the buffer timeout t of handleDisconnect fires
bufferTimeout(t) ==
  LET marked == markPlayerDisconnected(room, t.playerId)
      transfer == exists(marked) /\ t.isHost /\ marked.status = "waiting"
      removalTimeout == [kind |-> "removal", playerId |-> t.playerId]
  IN /\ room' = IF transfer THEN transferHost(marked, t.playerId) ELSE marked
     /\ emits' = <<[ev |-> "player_disconnected", playerId |-> t.playerId]>> \o
                 (IF transfer /\ transferHost(marked, t.playerId) # marked
                  THEN <<Ev("host_transferred")>> ELSE << >>)
     /\ dtimers' = BagAdd(BagDel(dtimers, t), removalTimeout)
     /\ disconnectTimeouts' = MapSet(disconnectTimeouts, t.playerId, Handle(removalTimeout))
     /\ call' = NoCall
     /\ UNCHANGED sockets
     /\ GameFrame

\* the removal timeout t of handleDisconnect fires
removalTimeout(t) ==
  /\ room' = removeIfStillDisconnected(room, t.playerId)
  /\ emits' = IF ~removeIfStillDisconnectedRet(room, t.playerId) THEN << >>
              ELSE IF exists(removeIfStillDisconnected(room, t.playerId))
              THEN <<Ev("player_left"), Ev("room_state_update")>>
              ELSE <<Ev("player_left"), Ev("room_closed")>>
  /\ dtimers' = BagDel(dtimers, t)
  /\ disconnectTimeouts' = MapDel(disconnectTimeouts, t.playerId)
  /\ call' = NoCall
  /\ UNCHANGED sockets
  /\ GameFrame

\* ------------------------------------------------------------------------
\* Initial values shared by the specifications
\* ------------------------------------------------------------------------
NoHist ==
  [nextId |-> 1, game |-> 0, results |-> [r \in {} |-> 0], messages |-> 0, seed |-> Undef,
   recorded |-> {}]

Idle ==
  /\ peer = NoRoom
  /\ clock = 0
  /\ sequenceSeed = 0
  /\ sockets = << >>
  /\ timers = EmptyBag
  /\ simonTimeouts = NoHandle
  /\ dtimers = EmptyBag
  /\ disconnectTimeouts = << >>
  /\ emits = << >>

\* ------------------------------------------------------------------------
\* SpecService: the GameService methods called in any order
\* ------------------------------------------------------------------------
SvcIds == 1..SvcMaxIds
SvcFrame == UNCHANGED <<peer, clock, sequenceSeed, sockets, timers, simonTimeouts, dtimers,
                        disconnectTimeouts, emits>>

SvcInit == room = NoRoom /\ call = NoCall /\ hist = NoHist /\ Idle

SvcCreateRoom ==
  /\ hist.nextId = 1
  /\ room' = createRoom(hist.nextId)
  /\ hist' = [hist EXCEPT !.nextId = @ + 1]
  /\ call' = [op |-> "createRoom", id |-> hist.nextId, arg |-> room, ret |-> "ok"]
  /\ SvcFrame

SvcJoinRoom ==
  /\ hist.nextId \in 2..SvcMaxIds
  /\ room' = joinRoom(room, hist.nextId)
  /\ hist' = [hist EXCEPT !.nextId = IF joinRoomError(room) = "ok" THEN @ + 1 ELSE @]
  /\ call' = [op |-> "joinRoom", id |-> hist.nextId, arg |-> room,
              ret |-> joinRoomError(room)]
  /\ SvcFrame

SvcRemovePlayer ==
  \E id \in SvcIds :
    /\ room' = removePlayer(room, id)
    /\ call' = [op |-> "removePlayer", id |-> id, arg |-> room,
                ret |-> removePlayerRet(room, id)]
    /\ UNCHANGED hist
    /\ SvcFrame

SvcRemoveIfStillDisconnected ==
  \E id \in SvcIds :
    /\ room' = removeIfStillDisconnected(room, id)
    /\ call' = [op |-> "removeIfStillDisconnected", id |-> id, arg |-> room,
                ret |-> removeIfStillDisconnectedRet(room, id)]
    /\ UNCHANGED hist
    /\ SvcFrame

SvcUpdateSocketId ==
  \E id \in SvcIds :
    /\ room' = updateSocketId(room, id, id)
    /\ call' = [op |-> "updateSocketId", id |-> id, arg |-> room, ret |-> "ok"]
    /\ UNCHANGED hist
    /\ SvcFrame

SvcMarkPlayerDisconnected ==
  \E id \in SvcIds :
    /\ room' = markPlayerDisconnected(room, id)
    /\ call' = [op |-> "markPlayerDisconnected", id |-> id, arg |-> room, ret |-> "ok"]
    /\ UNCHANGED hist
    /\ SvcFrame

SvcUpdateRoomStatus ==
  \E st \in Statuses :
    /\ room' = updateRoomStatus(room, st)
    /\ call' = [op |-> "updateRoomStatus", id |-> None, arg |-> room, ret |-> "ok"]
    /\ UNCHANGED hist
    /\ SvcFrame

SvcNext ==
  \/ SvcCreateRoom
  \/ SvcJoinRoom
  \/ SvcRemovePlayer
  \/ SvcRemoveIfStillDisconnected
  \/ SvcUpdateSocketId
  \/ SvcMarkPlayerDisconnected
  \/ SvcUpdateRoomStatus

SpecService == SvcInit /\ [][SvcNext]_vars

\* ------------------------------------------------------------------------
\* Spec: one game of the orchestrator.  The HTTP layer creates the room and
\* joins players, every player opens one connection while the room waits,
\* clients send game events at any moment, timers fire when they are due.
\* ------------------------------------------------------------------------
\* the outcome o of a tap or submission of playerId, counted if it was accepted
Counted(o, playerId) ==
  IF maySubmit(playerId) THEN [o EXCEPT !.hist.messages = @ + 1] ELSE o

Init == room = NoRoom /\ call = NoCall /\ hist = NoHist /\ Idle

HttpFrame == UNCHANGED <<peer, clock, sequenceSeed, sockets, timers, simonTimeouts, dtimers,
                         disconnectTimeouts, call>>

HttpCreateRoom ==
  /\ hist.nextId = 1
  /\ room' = createRoom(hist.nextId)
  /\ hist' = [hist EXCEPT !.nextId = @ + 1]
  /\ emits' = << >>
  /\ HttpFrame

HttpJoinRoom ==
  /\ hist.nextId \in 2..MaxIds
  /\ joinRoomError(room) = "ok"
  /\ room' = joinRoom(room, hist.nextId)
  /\ hist' = [hist EXCEPT !.nextId = @ + 1]
  /\ emits' = << >>
  /\ HttpFrame

\* the players open their connections in id order while the room waits
JoinRoomSocket ==
  \E p \in IssuedIds :
    /\ exists(room) /\ room.status = "waiting"
    /\ p = Len(sockets) + 1
    /\ join_room_socket(Len(sockets) + 1, p)

StartGame ==
  \E p \in IssuedIds :
    /\ AnyOpenSocket
    /\ start_game(p).room # room => hist.game + Cardinality(Countdowns) < MaxGames
    /\ Apply(start_game(p))
    /\ ConnFrame

CountdownTick ==
  \E t \in BagToSet(timers), now \in Seeds :
    /\ t.kind = "countdown"
    /\ t.due = 0
    /\ Apply(countdownTick(t, now))
    /\ ConnFrame

ShowTimer ==
  \E t \in BagToSet(timers) :
    /\ t.kind = "show"
    /\ t.due = 0
    /\ Apply(showTimer(t))
    /\ ConnFrame

CompleteTimer ==
  \E t \in BagToSet(timers) :
    /\ t.kind = "complete"
    /\ t.due = 0
    /\ Apply(completeTimer(t))
    /\ ConnFrame

OpenTimer ==
  \E t \in BagToSet(timers), now \in Times :
    /\ t.kind = "open"
    /\ t.due = 0
    /\ Apply(openTimer(t, now))
    /\ ConnFrame

\* the taps of player p the server tells apart: every tap it rejects unseen is
\* one tap, a finishTime comes only with the tap that completes the sequence
Taps(p) ==
  IF ~maySubmit(p)
  THEN {[color |-> COLORS[1], inputIndex |-> 0, finishTime |-> Undef]}
  ELSE {tap \in [color : Range(COLORS),
                 inputIndex : 0..Len(room.gameState.sequence),
                 finishTime : FinishTimes] :
          tap.finishTime # Undef => completes(p, tap.color, tap.inputIndex)}

SubmitInput ==
  \E p \in IssuedIds, now \in Times :
    \E tap \in Taps(p) :
      /\ AnyOpenSocket
      /\ maySubmit(p) => hist.messages < MaxMessages
      /\ Apply(Counted(submit_input(p, tap.color, tap.inputIndex, tap.finishTime, now), p))
      /\ ConnFrame

SubmitSequence ==
  \E p \in IssuedIds, now \in Times :
    \E sequence \in {<< >>} \cup (IF simonState(room) THEN {room.gameState.sequence} ELSE {}) :
      /\ AnyOpenSocket
      /\ maySubmit(p) => hist.messages < MaxMessages
      /\ Apply(Counted(submit_sequence(p, sequence, now), p))
      /\ ConnFrame

SimonTimeout ==
  \E t \in BagToSet(timers), asReg \in BOOLEAN, now \in Times :
    /\ t.kind = "deadline"
    /\ CanFire(timers, simonTimeouts, t, asReg)
    /\ Apply(handleSimonTimeout(t, asReg, now))
    /\ ConnFrame

AdvanceTimer ==
  \E t \in BagToSet(timers) :
    /\ t.kind = "advance"
    /\ t.due = 0
    /\ Apply(advanceSimonRound(t))
    /\ ConnFrame

FinishTimer ==
  \E t \in BagToSet(timers) :
    /\ t.kind = "finish"
    /\ t.due = 0
    /\ Apply(finishTimer(t))
    /\ ConnFrame

\* one unit of time passes: no timer is due, every pending timer comes closer
Elapse ==
  /\ timers # EmptyBag
  /\ \A t \in BagToSet(timers) : t.due > 0
  /\ timers' = Elapsed(timers)
  /\ simonTimeouts' = IF simonTimeouts # NoHandle /\ simonTimeouts.live
                       THEN [simonTimeouts EXCEPT !.timer = Older(@)]
                       ELSE simonTimeouts
  /\ emits' = << >>
  /\ call' = NoCall
  /\ UNCHANGED <<room, sequenceSeed, hist>>
  /\ ConnFrame

Next ==
  \/ HttpCreateRoom
  \/ HttpJoinRoom
  \/ JoinRoomSocket
  \/ StartGame
  \/ CountdownTick
  \/ ShowTimer
  \/ CompleteTimer
  \/ OpenTimer
  \/ SubmitInput
  \/ SubmitSequence
  \/ SimonTimeout
  \/ AdvanceTimer
  \/ FinishTimer
  \/ Elapse

Spec == Init /\ [][Next]_vars

\* ------------------------------------------------------------------------
\* Claims on one game (Spec)
\* ------------------------------------------------------------------------
\* C1: for every round of a game, whatever the interleaving of taps, legacy
\* submissions and the input-deadline callback, processSimonRound runs and
\* simon:round_result is emitted at most once for that round number.
C1_RoundClosedOnce == \A r \in DOMAIN hist.results : hist.results[r] <= 1

\* C4: in every state a tap or legacy-submit handler passes to
\* haveAllPlayersSubmitted, the result is true if and only if at least one player
\* is playing and every playing player has an entry in submissions.
C4_AllSubmittedIff ==
  call.op = "haveAllPlayersSubmitted" =>
    (call.ret <=> /\ activePlayers(call.arg) # {}
                  /\ \A p \in activePlayers(call.arg) : hasSubmission(call.arg, p))

\* C8: within one game, when the round changes it grows by one, the sequence of
\* round N has length N and its first N-1 elements are the sequence of round N-1.
C8_PrefixStability ==
  [][(/\ exists(room) /\ room.gameState # NoState
      /\ exists(room') /\ room'.gameState # NoState
      /\ hist'.game = hist.game
      /\ room'.gameState # room.gameState)
     => LET old == room.gameState
            new == room'.gameState
        IN \/ new.round = old.round /\ new.sequence = old.sequence
           \/ /\ new.round = old.round + 1
              /\ Len(new.sequence) = new.round
              /\ SubSeq(new.sequence, 1, new.round - 1) = old.sequence]_vars

\* C8 witness: the game reached its third round, its sequence extended twice
C8_Witness ==
  /\ simonState(room)
  /\ room.gameState.round = 3
  /\ Len(room.gameState.sequence) = 3
  /\ hist.results = (1 :> 1 @@ 2 :> 1)

\* the events named name among the events es, in order
EventsOf(es, name) == SelectSeq(es, LAMBDA e : e.ev = name)

\* the players the timeout events among es name
TimedOut(es) == {e.playerId : e \in Range(EventsOf(es, "simon:timeout"))}

\* the deadline step closes a round of a game of two or more players in which
\* player A holds the only correct submission and every other playing player
\* timed out
C11_Case(A) ==
  /\ simonState(room)
  /\ Cardinality(PlayerIds(room.gameState)) >= 2
  /\ TimedOut(emits') # {}
  /\ A \notin TimedOut(emits')
  /\ activePlayers(room.gameState) = {A} \cup TimedOut(emits')
  /\ \E i \in DOMAIN room.gameState.submissions :
        /\ room.gameState.submissions[i].playerId = A
        /\ room.gameState.submissions[i].isCorrect

\* what the round result of that step reports: winner A with one more point,
\* the timed-out players as the eliminations, A playing and the others
\* eliminated, and the finish callback scheduled on the resulting state
C11_Result(A) ==
  LET old == room.gameState
      new == room'.gameState
      rr == EventsOf(emits', "simon:round_result")
  IN /\ Len(rr) = 1
     /\ rr[1].roundWinner = [playerId |-> A]
     /\ rr[1].scores = [old.scores EXCEPT ![A] = @ + 1]
     /\ {e.playerId : e \in Range(rr[1].eliminations)} = TimedOut(emits')
     /\ Len(rr[1].eliminations) = Cardinality(TimedOut(emits'))
     /\ \A p \in PlayerIds(old) :
           rr[1].playerStatuses[p] = IF p = A THEN "playing" ELSE "eliminated"
     /\ BagIn(After(ROUND_PAUSE_MS, [kind |-> "finish", gameState |-> new]), timers')

\* the winner game_finished names when the finish callback scheduled by the step runs
C11_GameWinner == finishSimonGame(room', room'.gameState).emits[1].winner

TapActed(playerId) ==
  \E i \in DOMAIN emits' :
    /\ emits'[i].ev \in {"simon:input_correct", "simon:input_wrong"}
    /\ emits'[i].playerId = playerId

\* C17: a color tap changes the game state only if the room is active, the
\* game phase is player_input, the player is playing and has no submission in
\* the current round.
C17_TapOnlyInInputPhase ==
  [][\A p \in IssuedIds :
       (TapActed(p) /\ room' # room)
       => /\ exists(room) /\ room.status = "active" /\ room.gameState # NoState
          /\ room.gameState.phase = "player_input"
          /\ p \in PlayerIds(room.gameState)
          /\ room.gameState.playerStates[p].status = "playing"
          /\ ~hasSubmission(room.gameState, p)]_vars

\* the indexes of playerId's taps that were already accepted in this round
AcceptedIndexes(playerId) ==
  IF simonState(room) /\ playerId \in PlayerIds(room.gameState)
  THEN 0..(room.gameState.playerStates[playerId].currentInputIndex - 1)
  ELSE {}

\* C18: a tap that replays an already accepted index (its index is below the
\* player's recorded progress), sent in the input phase by a player who has not
\* finished the sequence, is ignored: the player's status and progress, the
\* submissions and all scores are unchanged and the player is not eliminated.
C18_StaleTapIgnored ==
  [][\A p \in IssuedIds, now \in Times, color \in Range(COLORS) :
       \A inputIndex \in AcceptedIndexes(p) :
         (/\ room.gameState.phase = "player_input"
          /\ room.gameState.playerStates[p].currentInputIndex < Len(room.gameState.sequence)
          /\ Apply(Counted(submit_input(p, color, inputIndex, Undef, now), p))
          /\ ConnFrame)
         => /\ room'.gameState.playerStates[p] = room.gameState.playerStates[p]
            /\ room'.gameState.submissions = room.gameState.submissions
            /\ room'.gameState.scores = room.gameState.scores
            /\ \A i \in DOMAIN emits' : emits'[i].ev # "simon:player_eliminated"]_vars

\* the deadline timeout t finds the input phase of the round it was armed for,
\* not yet closed
DeadlineInItsRound(t) ==
  /\ simonState(room)
  /\ room.gameState.phase = "player_input"
  /\ hist.game = t.game
  /\ room.gameState.round = t.round
  /\ t.round \notin DOMAIN hist.results

\* C20: the input-deadline callback records timeout submissions and processes
\* the round only if the room is active and the game state is in phase
\* player_input of the round the timeout was armed for; fired for a round that
\* was already closed, or in another round or game, it changes nothing.
C20_TimeoutOnlyForItsRound ==
  [][\A t \in BagToSet(timers), asReg \in BOOLEAN, now \in Times :
       (/\ t.kind = "deadline"
        /\ CanFire(timers, simonTimeouts, t, asReg)
        /\ Apply(handleSimonTimeout(t, asReg, now)) /\ ConnFrame
        /\ ~DeadlineInItsRound(t))
       => /\ room' = room
          /\ timers' = BagDel(timers, t)
          /\ emits' = << >>]_vars

\* ------------------------------------------------------------------------
\* SpecLobby: the room and its connections.  Players connect, reconnect, leave
\* and drop at any moment, the disconnect timers fire in any order, the host
\* starts and restarts the game, and the game runs on its timers with clients
\* that send no input.
\* ------------------------------------------------------------------------
Connect ==
  \E p \in IssuedIds :
    /\ Len(sockets) < MaxSockets
    /\ join_room_socket(Len(sockets) + 1, p)

Reconnect ==
  \E p \in IssuedIds :
    /\ Len(sockets) < MaxSockets
    /\ handleAutoReconnect(p)

LeaveRoom ==
  \E sid \in DOMAIN sockets :
    /\ sockets[sid].open
    /\ sockets[sid].playerId # None
    /\ leave_room(sid, sockets[sid].playerId)

Disconnect ==
  \E sid \in DOMAIN sockets :
    /\ sockets[sid].open
    /\ handleDisconnect(sid)

BufferTimeout ==
  \E t \in BagToSet(dtimers) :
    /\ t.kind = "buffer"
    /\ bufferTimeout(t)

RemovalTimeout ==
  \E t \in BagToSet(dtimers) :
    /\ t.kind = "removal"
    /\ removalTimeout(t)

RestartGame ==
  \E p \in IssuedIds :
    /\ AnyOpenSocket
    /\ Apply(restart_game(p))
    /\ ConnFrame

LobbyNext ==
  \/ HttpCreateRoom
  \/ HttpJoinRoom
  \/ Connect
  \/ Reconnect
  \/ LeaveRoom
  \/ Disconnect
  \/ BufferTimeout
  \/ RemovalTimeout
  \/ StartGame
  \/ RestartGame
  \/ CountdownTick
  \/ ShowTimer
  \/ CompleteTimer
  \/ OpenTimer
  \/ SimonTimeout
  \/ FinishTimer
  \/ Elapse

SpecLobby == Init /\ [][LobbyNext]_vars

\* ------------------------------------------------------------------------
\* SpecGrace: the disconnect grace protocol of a waiting room.  A player may
\* hold several connections (every connection that presents the player's
\* session token is bound to the player); connections drop and the buffer and
\* removal timeouts fire in any order.
\* ------------------------------------------------------------------------
GraceConnect ==
  \E p \in IssuedIds :
    /\ Len(sockets) < GraceMaxSockets
    /\ join_room_socket(Len(sockets) + 1, p)

GraceReconnect ==
  \E p \in IssuedIds :
    /\ Len(sockets) < GraceMaxSockets
    /\ handleAutoReconnect(p)

GraceNext ==
  \/ HttpCreateRoom
  \/ HttpJoinRoom
  \/ GraceConnect
  \/ GraceReconnect
  \/ LeaveRoom
  \/ Disconnect
  \/ BufferTimeout
  \/ RemovalTimeout

SpecGrace == Init /\ [][GraceNext]_vars

\* the pending disconnect timeouts of playerId of the given kind
PendingOf(playerId, kind) ==
  LET ts == {t \in BagToSet(dtimers) : t.playerId = playerId /\ t.kind = kind}
  IN BagCardinality([t \in ts |-> CopiesIn(t, dtimers)])

\* C22: in every reachable state each player has at most one pending buffer
\* timeout and at most one pending removal timeout, and every pending
\* disconnect timeout of a player is the one recorded under the player's key
\* in disconnectTimeouts.
C22_NoOrphanDisconnectTimer ==
  \A p \in IssuedIds :
    /\ PendingOf(p, "buffer") <= 1
    /\ PendingOf(p, "removal") <= 1
    /\ \A t \in BagToSet(dtimers) :
         t.playerId = p =>
           /\ CopiesIn(t, dtimers) = 1
           /\ p \in DOMAIN disconnectTimeouts
           /\ disconnectTimeouts[p].live
           /\ disconnectTimeouts[p].timer = t

\* the connection opened by the step was bound to playerId by its session token
AutoReconnected(playerId) ==
  /\ Len(sockets') = Len(sockets) + 1
  /\ sockets'[Len(sockets')].playerId = playerId
  /\ emits' = <<Ev("player_reconnected"), Ev("room_state")>>

\* C21: after a returning client was reconnected by its session token to a
\* live player record, the player's connection id is the new one, the player is
\* marked connected, and no buffer or removal timeout of that player is pending.
C21_ReconnectClearsTimers ==
  [][\A p \in IssuedIds :
       AutoReconnected(p)
       => /\ hasPlayer(room', p)
          /\ getPlayer(room', p).socketId = Len(sockets')
          /\ getPlayer(room', p).connected
          /\ ~\E t \in BagToSet(dtimers') : t.playerId = p]_vars

\* ------------------------------------------------------------------------
\* Claims on the room and its connections (SpecLobby)
\* ------------------------------------------------------------------------
\* C2: the room status only ever changes along waiting->countdown,
\* countdown->active, active->finished and, on restart, finished->waiting.
C2_StatusEdges ==
  [][(exists(room) /\ exists(room') /\ room'.status # room.status)
     => <<room.status, room'.status>> \in {<<"waiting", "countdown">>,
                                          <<"countdown", "active">>,
                                          <<"active", "finished">>,
                                          <<"finished", "waiting">>}]_vars

\* C3: every room that exists in the directory has exactly one player whose
\* host flag is true.
C3_ExactlyOneHost == exists(room) => Cardinality(hosts(room)) = 1

\* C14: a player who binds a new connection (by session token or by
\* join_room_socket) while a disconnect timeout of an earlier drop is pending,
\* and whose new connection stays open, is never removed from the room by a
\* buffer or removal timeout.
C14_RejoinedNeverRemoved ==
  [][\A p \in IssuedIds :
       (/\ dtimers' # dtimers /\ sockets' = sockets
        /\ hasPlayer(room, p) /\ ~hasPlayer(room', p))
       => ~\E sid \in DOMAIN sockets :
             sockets[sid].open /\ sockets[sid].playerId = p /\ sockets[sid].rejoined]_vars

C15_WitnessNotHost ==
  exists(room) /\ emits = <<ErrorToSender("Only host can start the game")>>
C15_WitnessNotWaiting ==
  exists(room) /\ room.status # "waiting" /\ emits = <<ErrorToSender("Game already started")>>
C15_WitnessNobodyConnected ==
  /\ exists(room) /\ room.status = "waiting" /\ AnyOpenSocket
  /\ \A i \in DOMAIN room.players : ~room.players[i].connected

\* C16: a restart_game message whose player id is not the id of the room's
\* current host leaves the room status and the game state unchanged.
C16_RestartHostOnly ==
  [][\A p \in IssuedIds :
       (/\ Apply(restart_game(p)) /\ ConnFrame
        /\ exists(room)
        /\ ~\E i \in DOMAIN room.players : room.players[i].id = p /\ room.players[i].isHost)
       => room'.status = room.status /\ room'.gameState = room.gameState]_vars

\* the number of input-deadline timeouts that are armed and have neither fired
\* nor been cancelled
LiveDeadlines ==
  LET ds == {t \in BagToSet(timers) : t.kind = "deadline"}
  IN BagCardinality([t \in ds |-> CopiesIn(t, timers)])

\* C19: in every reachable state the room has at most one live input-deadline
\* timeout: the timeout of a round is cancelled or has fired before the next
\* one is armed.
C19_OneLiveDeadline == LiveDeadlines <= 1

\* C5: when the connection of the host drops while the room is active, a
\* host_disconnected broadcast is emitted, the room is absent afterwards and no
\* timer remains pending for the room: no disconnect timer, no input deadline,
\* no scheduled reveal, advance or finish callback.
C5_HostDropLeavesNothing ==
  [][(\E sid \in DOMAIN sockets :
        /\ sockets[sid].open /\ ~sockets'[sid].open
        /\ exists(room) /\ room.status = "active"
        /\ hasPlayer(room, sockets[sid].playerId)
        /\ getPlayer(room, sockets[sid].playerId).isHost)
     => /\ \E i \in DOMAIN emits' : emits'[i].ev = "host_disconnected"
        /\ room' = NoRoom
        /\ timers' = EmptyBag
        /\ simonTimeouts' = NoHandle
        /\ dtimers' = EmptyBag
        /\ disconnectTimeouts' = << >>]_vars

\* ------------------------------------------------------------------------
\* Claims on the directory (SpecService)
\* ------------------------------------------------------------------------
\* C6: every room in the directory has at most MAX_PLAYERS (4) players, for every
\* sequence of createRoom, joinRoom, removePlayer and removeIfStillDisconnected.
C6_AtMostMaxPlayers == exists(room) => Len(room.players) <= MAX_PLAYERS

\* C6 witness: a join was refused with 'Room is full' on a room holding 4 players
C6_Witness ==
  /\ call.op = "joinRoom" /\ call.ret = "Room is full"
  /\ exists(room) /\ Len(room.players) = MAX_PLAYERS

\* C7: removePlayer(code, id) returns false and changes nothing when the room or
\* the player is absent; otherwise it returns true, deletes the room when the
\* removed player was the last one, and else keeps the remaining players in join
\* order, unchanged but for the host flag: when the removed player was the host,
\* the earliest remaining player (and no other) becomes host.
C7_RemovePlayerContract ==
  call.op = "removePlayer" =>
    LET before == call.arg
        id == call.id
    IN IF ~hasPlayer(before, id)
       THEN call.ret = FALSE /\ room = before
       ELSE LET i == indexOf(before, id)
                rest == RemoveAt(before.players, i)
                wasHost == before.players[i].isHost
            IN /\ call.ret = TRUE
               /\ IF Len(before.players) = 1
                  THEN room = NoRoom
                  ELSE /\ exists(room)
                       /\ room.status = before.status
                       /\ room.gameState = before.gameState
                       /\ Len(room.players) = Len(rest)
                       /\ \A k \in DOMAIN rest :
                            /\ room.players[k].id = rest[k].id
                            /\ room.players[k].socketId = rest[k].socketId
                            /\ room.players[k].connected = rest[k].connected
                            /\ room.players[k].isHost = (rest[k].isHost \/ (wasHost /\ k = 1))

\* C7 witness: the host was removed from a room of three or more and the
\* earliest remaining player is now host
C7_Witness ==
  /\ call.op = "removePlayer"
  /\ hasPlayer(call.arg, call.id)
  /\ getPlayer(call.arg, call.id).isHost
  /\ Len(call.arg.players) >= 3
  /\ exists(room) /\ hosts(room) = {1}

\* C13: joinRoom fails with 'Room not found' for an unknown code, else with
\* 'Game already in progress' when the room is not waiting, else with 'Room is
\* full' when the room has 4 players; a failure leaves the directory and the
\* room unchanged, a success appends exactly one non-host, not-connected player
\* at the end of the player list and changes nothing else.
C13_JoinRoomContract ==
  call.op = "joinRoom" =>
    LET r == call.arg IN
    IF r = NoRoom THEN call.ret = "Room not found" /\ room = r
    ELSE IF r.status # "waiting" THEN call.ret = "Game already in progress" /\ room = r
    ELSE IF Len(r.players) >= 4 THEN call.ret = "Room is full" /\ room = r
    ELSE /\ call.ret = "ok"
         /\ room # NoRoom
         /\ Len(room.players) = Len(r.players) + 1
         /\ SubSeq(room.players, 1, Len(r.players)) = r.players
         /\ room.players[Len(room.players)] =
              [id |-> call.id, isHost |-> FALSE, socketId |-> None, connected |-> FALSE]
         /\ room.status = r.status /\ room.gameState = r.gameState

\* C13 witness: a join was refused because the waiting room already had 4 players
C13_Witness ==
  /\ call.op = "joinRoom" /\ call.ret = "Room is full"
  /\ call.arg # NoRoom /\ call.arg.status = "waiting" /\ Len(call.arg.players) = 4

\* C13 second case: a join into a waiting room with players succeeded
C13_WitnessJoined ==
  /\ call.op = "joinRoom" /\ call.ret = "ok"
  /\ Len(room.players) = Len(call.arg.players) + 1 /\ Len(call.arg.players) >= 2

\* ------------------------------------------------------------------------
\* SpecEngine: the simonLogic functions applied to arbitrary game states
\* ------------------------------------------------------------------------
\* a submission as the handlers record it for player p
SubmissionsOf(p, seq) ==
  {[playerId |-> p, sequence |-> seq, timestamp |-> t, finishTime |-> f, isCorrect |-> TRUE] :
      t \in 1..EngineMaxTime, f \in {Undef} \cup (0..EngineMaxTime)}
  \cup
  {[playerId |-> p, sequence |-> << >>, timestamp |-> t, finishTime |-> Undef,
    isCorrect |-> FALSE] : t \in 1..EngineMaxTime}

\* the submission maps over the players ids: at most one entry per player
SubmissionMaps(ids, seq) ==
  LET all == UNION {SubmissionsOf(p, seq) : p \in ids}
  IN {m \in UNION {[1..k -> all] : k \in 0..Cardinality(ids)} :
        \A i, j \in DOMAIN m : i # j => m[i].playerId # m[j].playerId}

EngineRoom(n, gs) ==
  [players |-> [i \in 1..n |-> [id |-> i, isHost |-> i = 1, socketId |-> i, connected |-> TRUE]],
   status |-> "active",
   gameState |-> gs]

EngFrame == UNCHANGED <<peer, clock, sockets, timers, simonTimeouts, dtimers, disconnectTimeouts,
                        emits, hist>>

EngInit ==
  /\ \E n \in 1..EnginePlayers, round \in 1..MAX_CYCLES, now \in EngineSeeds :
       LET g == generateSequence(round, now)
           base == initializeSimonGame(EngineRoom(n, NoState).players, now)
       IN /\ sequenceSeed = g[2]
          /\ \E st \in [1..n -> {"playing", "eliminated"}],
                sc \in [1..n -> 0..EngineMaxScore],
                subs \in SubmissionMaps(1..n, g[1]) :
               room = EngineRoom(n,
                        [base EXCEPT !.sequence = g[1],
                                     !.round = round,
                                     !.phase = "player_input",
                                     !.playerStates = [p \in 1..n |->
                                        [status |-> st[p], currentInputIndex |-> 0,
                                         eliminatedAtRound |-> IF st[p] = "eliminated"
                                                               THEN round ELSE None]],
                                     !.scores = sc,
                                     !.submissions = subs])
  /\ call = NoCall
  /\ hist = NoHist
  /\ peer = NoRoom
  /\ clock = 0
  /\ sockets = << >>
  /\ timers = EmptyBag
  /\ simonTimeouts = NoHandle
  /\ dtimers = EmptyBag
  /\ disconnectTimeouts = << >>
  /\ emits = << >>

EngProcessRoundSubmissions ==
  /\ room.gameState.submissions # << >>
  /\ room' = [room EXCEPT !.gameState = processRoundSubmissions(room.gameState).gameState]
  /\ call' = [op |-> "processRoundSubmissions", id |-> None, arg |-> room.gameState,
              ret |-> processRoundSubmissions(room.gameState)]
  /\ UNCHANGED sequenceSeed
  /\ EngFrame

EngHaveAllPlayersSubmitted ==
  /\ call' = [op |-> "haveAllPlayersSubmitted", id |-> None, arg |-> room.gameState,
              ret |-> haveAllPlayersSubmitted(room.gameState)]
  /\ call' # call
  /\ UNCHANGED <<room, sequenceSeed>>
  /\ EngFrame

EngShouldGameEnd ==
  /\ call' = [op |-> "shouldGameEnd", id |-> None, arg |-> room.gameState,
              ret |-> shouldGameEnd(room.gameState)]
  /\ call' # call
  /\ UNCHANGED <<room, sequenceSeed>>
  /\ EngFrame

EngAdvanceToNextRound ==
  /\ room.gameState.round < MAX_CYCLES
  /\ room' = [room EXCEPT !.gameState = advanceToNextRound(room.gameState, sequenceSeed)]
  /\ sequenceSeed' = seededRandom(sequenceSeed)
  /\ call' = [op |-> "advanceToNextRound", id |-> None, arg |-> room.gameState,
              ret |-> "ok"]
  /\ EngFrame

EngEliminatePlayer ==
  \E p \in PlayerIds(room.gameState) :
    /\ room' = [room EXCEPT !.gameState = eliminatePlayer(room.gameState, p, room.gameState.round)]
    /\ call' = [op |-> "eliminatePlayer", id |-> p, arg |-> room.gameState, ret |-> "ok"]
    /\ UNCHANGED sequenceSeed
    /\ EngFrame

EngNext ==
  \/ EngProcessRoundSubmissions
  \/ EngHaveAllPlayersSubmitted
  \/ EngShouldGameEnd
  \/ EngAdvanceToNextRound
  \/ EngEliminatePlayer

SpecEngine == EngInit /\ [][EngNext]_vars

\* ------------------------------------------------------------------------
\* Claims on the engine (SpecEngine)
\* ------------------------------------------------------------------------
\* the players whose score processRoundSubmissions changed from gs to out
Scorers(gs, out) ==
  {p \in DOMAIN out.scores : p \notin DOMAIN gs.scores \/ out.scores[p] # gs.scores[p]}

\* C9: processRoundSubmissions increments the score of at most one player, by
\* exactly 1 (of no player when no submission is correct), leaves every other
\* score unchanged and never turns an eliminated player into a playing one.
C9_OneScorerNoRevival ==
  call.op = "processRoundSubmissions" =>
    LET gs == call.arg
        out == call.ret.gameState
    IN /\ room.gameState = out
       /\ DOMAIN out.scores = DOMAIN gs.scores
       /\ Cardinality(Scorers(gs, out)) <= 1
       /\ \A p \in Scorers(gs, out) : out.scores[p] = gs.scores[p] + 1
       /\ (\A i \in DOMAIN gs.submissions : ~gs.submissions[i].isCorrect)
             => Scorers(gs, out) = {}
       /\ \A p \in PlayerIds(gs) :
            gs.playerStates[p].status = "eliminated"
               => out.playerStates[p].status = "eliminated"

\* C9 witness: a round with two correct submissions, one of them of a player
\* who is already eliminated, was processed and one player scored
C9_Witness ==
  /\ call.op = "processRoundSubmissions"
  /\ Cardinality({i \in DOMAIN call.arg.submissions : call.arg.submissions[i].isCorrect}) >= 2
  /\ \E p \in PlayerIds(call.arg) :
       call.arg.playerStates[p].status = "eliminated" /\ hasSubmission(call.arg, p)
  /\ Cardinality(Scorers(call.arg, room.gameState)) = 1

\* C12: shouldGameEnd(state) is true iff round >= 5, or the game has one player
\* in total and that player is eliminated, or the game has another number of
\* players and at most one of them is playing.
C12_GameEndIff ==
  call.op = "shouldGameEnd" =>
    LET gs == call.arg
        total == Cardinality(PlayerIds(gs))
        playing == Cardinality({p \in PlayerIds(gs) : gs.playerStates[p].status = "playing"})
    IN call.ret <=> \/ gs.round >= 5
                    \/ total = 1 /\ playing = 0
                    \/ total # 1 /\ playing <= 1

\* C12 witness: a solo game whose player is playing at a round below 5 was
\* found not to be over
C12_Witness ==
  /\ call.op = "shouldGameEnd"
  /\ Cardinality(PlayerIds(call.arg)) = 1
  /\ \A p \in PlayerIds(call.arg) : call.arg.playerStates[p].status = "playing"
  /\ call.arg.round < 5
  /\ call.ret = FALSE

\* C10: haveAllPlayersSubmitted is false whenever no player has status playing,
\* whatever the submissions map holds.
C10_NoActiveNoClosure ==
  (call.op = "haveAllPlayersSubmitted" /\ activePlayers(call.arg) = {}) => call.ret = FALSE

\* C10 witness: the check was made on a state with no playing player and a
\* non-empty submissions map
C10_Witness ==
  /\ call.op = "haveAllPlayersSubmitted"
  /\ activePlayers(call.arg) = {}
  /\ Len(call.arg.submissions) >= 1
  /\ call.ret = FALSE

\* ------------------------------------------------------------------------
\* SpecRooms: two rooms of the directory play on the one simonLogic module.
\* Their games start (initializeSimonGame) and advance (advanceToNextRound) in
\* any order; hist.seed keeps the Date.now() value room's game started with.
\* ------------------------------------------------------------------------
RoomsSeeds == 0..RoomsMaxSeed

RoomsFrame == UNCHANGED <<clock, sockets, timers, simonTimeouts, dtimers, disconnectTimeouts,
                          emits, call>>

RoomsInit ==
  /\ room = EngineRoom(1, NoState)
  /\ peer = EngineRoom(1, NoState)
  /\ clock = 0
  /\ call = NoCall
  /\ hist = NoHist
  /\ sequenceSeed = 0
  /\ sockets = << >>
  /\ timers = EmptyBag
  /\ simonTimeouts = NoHandle
  /\ dtimers = EmptyBag
  /\ disconnectTimeouts = << >>
  /\ emits = << >>

RoomsStartRoom ==
  \E now \in RoomsSeeds :
    /\ room.gameState = NoState
    /\ room' = updateGameState(room, initializeSimonGame(room.players, now))
    /\ sequenceSeed' = generateSequence(INITIAL_SEQUENCE_LENGTH, now)[2]
    /\ hist' = [hist EXCEPT !.seed = now]
    /\ UNCHANGED peer
    /\ RoomsFrame

RoomsStartPeer ==
  \E now \in RoomsSeeds :
    /\ peer.gameState = NoState
    /\ peer' = updateGameState(peer, initializeSimonGame(peer.players, now))
    /\ sequenceSeed' = generateSequence(INITIAL_SEQUENCE_LENGTH, now)[2]
    /\ UNCHANGED <<room, hist>>
    /\ RoomsFrame

RoomsAdvanceRoom ==
  /\ room.gameState # NoState
  /\ room.gameState.round < MAX_CYCLES
  /\ room' = updateGameState(room, advanceToNextRound(room.gameState, sequenceSeed))
  /\ sequenceSeed' = seededRandom(sequenceSeed)
  /\ UNCHANGED <<peer, hist>>
  /\ RoomsFrame

RoomsAdvancePeer ==
  /\ peer.gameState # NoState
  /\ peer.gameState.round < MAX_CYCLES
  /\ peer' = updateGameState(peer, advanceToNextRound(peer.gameState, sequenceSeed))
  /\ sequenceSeed' = seededRandom(sequenceSeed)
  /\ UNCHANGED <<room, hist>>
  /\ RoomsFrame

RoomsNext ==
  \/ RoomsStartRoom
  \/ RoomsStartPeer
  \/ RoomsAdvanceRoom
  \/ RoomsAdvancePeer

SpecRooms == RoomsInit /\ [][RoomsNext]_vars

\* C23: the colors of a room's sequence depend only on the room's own seed and
\* the number of extensions: the sequence is the stream generated from the seed
\* the room's game started with, whatever the other room did in between.
C23_OwnStreamOnly ==
  room.gameState # NoState =>
    room.gameState.sequence = generateSequence(Len(room.gameState.sequence), hist.seed)[1]

\* ------------------------------------------------------------------------
\* SpecRace: one solo game whose client sends the correct sequence with
\* simon:submit_sequence at any moment and as often as it likes, racing the
\* reveal, advance, deadline and finish callbacks.
\* ------------------------------------------------------------------------
RaceSubmitSequence ==
  \E p \in IssuedIds, now \in Times :
    /\ AnyOpenSocket
    /\ maySubmit(p)
    /\ hist.messages < RaceMaxMessages
    /\ Apply(Counted(submit_sequence(p, room.gameState.sequence, now), p))
    /\ ConnFrame

\* the host starts the game from the waiting room
RaceStartGame ==
  /\ exists(room) /\ room.status = "waiting"
  /\ StartGame

RaceNext ==
  \/ HttpCreateRoom
  \/ JoinRoomSocket
  \/ RaceStartGame
  \/ CountdownTick
  \/ ShowTimer
  \/ CompleteTimer
  \/ OpenTimer
  \/ RaceSubmitSequence
  \/ SimonTimeout
  \/ AdvanceTimer
  \/ FinishTimer
  \/ Elapse

SpecRace == Init /\ [][RaceNext]_vars

\* C24: in every reachable state of an active or finished room the round
\* counter of the game state is between 1 and 5.
C24_RoundAtMostFive ==
  (exists(room) /\ room.status \in {"active", "finished"} /\ room.gameState # NoState)
    => room.gameState.round \in 1..5

\* ------------------------------------------------------------------------
\* SpecCleanup: the directory with two room codes under the periodic sweep.
\* Rooms carry createdAt and players carry lastActivity as in the source;
\* since is bookkeeping: the time from which the player has been not
\* connected without interruption.
\* ------------------------------------------------------------------------
\* new Date() put on the records that do not have their dates yet
Stamp(r, now) ==
  IF ~exists(r) THEN r
  ELSE [r @@ [createdAt |-> now] EXCEPT
          !.players = [i \in DOMAIN r.players |->
                         r.players[i] @@ [lastActivity |-> now, since |-> now]]]

\* updateSocketId with its player.lastActivity = new Date()
updateSocketIdAt(r, playerId, socketId, now) ==
  IF hasPlayer(r, playerId)
  THEN [updateSocketId(r, playerId, socketId) EXCEPT
          !.players[indexOf(r, playerId)].lastActivity = now]
  ELSE r

\* markPlayerDisconnected; since is set when the player was connected
markPlayerDisconnectedAt(r, playerId, now) ==
  IF hasPlayer(r, playerId) /\ getPlayer(r, playerId).connected
  THEN [markPlayerDisconnected(r, playerId) EXCEPT
          !.players[indexOf(r, playerId)].since = now]
  ELSE markPlayerDisconnected(r, playerId)

\* the tests of cleanupDeadRooms on one room when Date.now() = now
roomIsDead(r, now) ==
  /\ exists(r)
  /\ \/ now - r.createdAt > ROOM_MAX_AGE_MS
     \/ /\ \A i \in DOMAIN r.players : ~r.players[i].connected
        /\ Len(r.players) > 0
        /\ now - Min({r.players[i].lastActivity : i \in DOMAIN r.players})
             > DISCONNECT_GRACE_MS

\* cleanupDeadRooms() over the directory rooms: [rooms, cleaned]
cleanupDeadRooms(rooms, now) ==
  [rooms |-> [i \in DOMAIN rooms |-> IF roomIsDead(rooms[i], now) THEN NoRoom ELSE rooms[i]],
   cleaned |-> Cardinality({i \in DOMAIN rooms : roomIsDead(rooms[i], now)})]

CleanFrame == UNCHANGED <<sequenceSeed, sockets, timers, simonTimeouts, dtimers,
                          disconnectTimeouts, emits>>

\* the directory entry i becomes r
SetRoom(i, r) == IF i = 1 THEN room' = r /\ peer' = peer ELSE room' = room /\ peer' = r

Directory == <<room, peer>>

CleanInit == room = NoRoom /\ call = NoCall /\ hist = NoHist /\ Idle

CleanCreateRoom ==
  \E i \in DOMAIN Directory :
    /\ ~exists(Directory[i])
    /\ hist.nextId <= CleanMaxIds
    /\ SetRoom(i, Stamp(createRoom(hist.nextId), clock))
    /\ hist' = [hist EXCEPT !.nextId = @ + 1]
    /\ call' = NoCall
    /\ UNCHANGED clock
    /\ CleanFrame

CleanJoinRoom ==
  \E i \in DOMAIN Directory :
    /\ joinRoomError(Directory[i]) = "ok"
    /\ hist.nextId <= CleanMaxIds
    /\ SetRoom(i, Stamp(joinRoom(Directory[i], hist.nextId), clock))
    /\ hist' = [hist EXCEPT !.nextId = @ + 1]
    /\ call' = NoCall
    /\ UNCHANGED clock
    /\ CleanFrame

CleanUpdateSocketId ==
  \E i \in DOMAIN Directory, p \in IssuedIds :
    /\ hasPlayer(Directory[i], p)
    /\ SetRoom(i, updateSocketIdAt(Directory[i], p, p, clock))
    /\ call' = NoCall
    /\ UNCHANGED <<clock, hist>>
    /\ CleanFrame

CleanMarkPlayerDisconnected ==
  \E i \in DOMAIN Directory, p \in IssuedIds :
    /\ hasPlayer(Directory[i], p)
    /\ SetRoom(i, markPlayerDisconnectedAt(Directory[i], p, clock))
    /\ call' = NoCall
    /\ UNCHANGED <<clock, hist>>
    /\ CleanFrame

\* time passes: one minute, the grace period, or the maximal room age
CleanTick ==
  \E d \in {60000, DISCONNECT_GRACE_MS, ROOM_MAX_AGE_MS} :
    /\ (clock % ROOM_MAX_AGE_MS) + (d % ROOM_MAX_AGE_MS) <= CleanMaxClock
    /\ clock + d < 2 * ROOM_MAX_AGE_MS
    /\ clock' = clock + d
    /\ call' = NoCall
    /\ UNCHANGED <<room, peer, hist>>
    /\ CleanFrame

CleanupDeadRooms ==
  LET out == cleanupDeadRooms(Directory, clock)
  IN /\ room' = out.rooms[1]
     /\ peer' = out.rooms[2]
     /\ call' = [op |-> "cleanupDeadRooms", id |-> clock, arg |-> Directory,
                 ret |-> out.cleaned]
     /\ UNCHANGED <<clock, hist>>
     /\ CleanFrame

CleanNext ==
  \/ CleanCreateRoom
  \/ CleanJoinRoom
  \/ CleanUpdateSocketId
  \/ CleanMarkPlayerDisconnected
  \/ CleanTick
  \/ CleanupDeadRooms

SpecCleanup == CleanInit /\ [][CleanNext]_vars

\* the room is older than 24 h, or every player is disconnected and a
\* least-recently-active player has been disconnected for more than 3 minutes
MustGo(r, now) ==
  /\ r # NoRoom
  /\ \/ now - r.createdAt > 86400000
     \/ /\ \A i \in DOMAIN r.players : ~r.players[i].connected
        /\ \E i \in DOMAIN r.players :
             /\ \A j \in DOMAIN r.players :
                  r.players[i].lastActivity <= r.players[j].lastActivity
             /\ now - r.players[i].since > 180000

\* C25: cleanupDeadRooms deletes exactly the rooms that are older than 24 h or
\* in which every player is disconnected and the least-recently-active player
\* has been disconnected for longer than 3 minutes, returns the number of rooms
\* deleted and leaves every other room unchanged.
C25_CleanupExactly ==
  call.op = "cleanupDeadRooms" =>
    /\ \A i \in DOMAIN call.arg :
         Directory[i] = IF MustGo(call.arg[i], call.id) THEN NoRoom ELSE call.arg[i]
    /\ call.ret = Cardinality({i \in DOMAIN call.arg : MustGo(call.arg[i], call.id)})


\* ------------------------------------------------------------------------
\* Claims on the round winner (SpecEngine)
\* ------------------------------------------------------------------------
\* the key of a submission as the specification words it: the client-reported
\* completion time when one is present, the value 0 included, otherwise the
\* server-receive time
ReportedKey(s) == IF s.finishTime # Undef THEN s.finishTime ELSE s.timestamp

\* the indexes of the correct submissions of the map, in insertion order
CorrectIndexes(subs) == {i \in DOMAIN subs : subs[i].isCorrect}

\* C26: when a round has at least one correct submission,
\* processRoundSubmissions chooses exactly one winner: a correct submission
\* whose key (the client-reported completion time if present, 0 included,
\* otherwise the server-receive time) is minimal among the correct submissions,
\* the one inserted first among equal keys.
C26_FastestByReportedKey ==
  (call.op = "processRoundSubmissions" /\ CorrectIndexes(call.arg.submissions) # {}) =>
    LET subs == call.arg.submissions
        best == CHOOSE i \in CorrectIndexes(subs) :
                  \A j \in CorrectIndexes(subs) :
                     \/ ReportedKey(subs[i]) < ReportedKey(subs[j])
                     \/ ReportedKey(subs[i]) = ReportedKey(subs[j]) /\ i <= j
    IN /\ call.ret.roundWinner # NoCall
       /\ call.ret.roundWinner.playerId = subs[best].playerId
       /\ Scorers(call.arg, call.ret.gameState) = {subs[best].playerId}


\* ------------------------------------------------------------------------
\* Claims on the round and game results (Spec)
\* ------------------------------------------------------------------------
\* C27: a player eliminated because the input deadline expired without a
\* submission is reported with reason timeout, not wrong_sequence, in the
\* eliminations of processRoundSubmissions as broadcast in player_eliminated
\* and round_result.
C27_TimeoutReason ==
  \A p \in TimedOut(emits) :
    /\ \A e \in Range(EventsOf(emits, "simon:player_eliminated")) :
          e.playerId = p => e.reason = "timeout"
    /\ \A rr \in Range(EventsOf(emits, "simon:round_result")) :
          \A e \in Range(rr.eliminations) : e.playerId = p => e.reason = "timeout"


\* C28: when game_finished is emitted and at least one player still has status
\* playing, the announced winner is a player with status playing; the highest
\* score decides only when every player has been eliminated.
C28_WinnerStillPlaying ==
  \A e \in Range(EventsOf(emits, "simon:game_finished")) :
    (room.gameState # NoState /\ activePlayers(room.gameState) # {})
       => e.winner.playerId \in activePlayers(room.gameState)


\* C29: in every reachable game state timeoutAt and timerStartedAt are both
\* null whenever the phase is not player_input, and both are set with
\* timeoutAt = timerStartedAt + 20000 ms while the phase is player_input.
C29_DeadlineFieldsFollowPhase ==
  (exists(room) /\ room.gameState # NoState) =>
    LET gs == room.gameState
    IN IF gs.phase = "player_input"
       THEN /\ gs.timeoutAt # None
            /\ gs.timerStartedAt # None
            /\ gs.timeoutAt = gs.timerStartedAt + 20000
       ELSE gs.timeoutAt = None /\ gs.timerStartedAt = None


\* C30: in every reachable game state the length of the accumulated colour
\* sequence equals the round counter, after initializeSimonGame and after any
\* number of advanceToNextRound calls, rounds advanced by racing callbacks
\* included.
C30_SequenceLengthIsRound ==
  (exists(room) /\ room.gameState # NoState) =>
    Len(room.gameState.sequence) = room.gameState.round

\* C30 witness: round 1 was processed twice and its two advance callbacks both
\* ran: the game is in round 3, no result of round 2 exists, and the sequence
\* holds three colours
C30_Witness ==
  /\ simonState(room)
  /\ room.gameState.round = 3
  /\ Len(room.gameState.sequence) = 3
  /\ 1 \in DOMAIN hist.results /\ hist.results[1] >= 2
  /\ 2 \notin DOMAIN hist.results


\* ------------------------------------------------------------------------
\* Claims on the submissions map (Spec)
\* ------------------------------------------------------------------------
\* the players the events es report an entry of the submissions map for: a
\* completed tap sequence or legacy submission, a wrong tap, a timeout
RecordedBy(es) ==
  {e.playerId : e \in Range(EventsOf(es, "simon:player_submitted"))}
    \cup {e.playerId : e \in Range(EventsOf(es, "simon:input_wrong"))}
    \cup TimedOut(es)

\* C31: every entry of the submissions map belongs to a player whose status
\* was playing when the entry was recorded (by a tap, a legacy submission or
\* the timeout callback), no player gets a second entry in the same round, and
\* the map is empty at the start of every round (after initializeSimonGame and
\* after advanceToNextRound).
C31_OneEntryPerPlayingPlayer ==
  [][/\ \A p \in RecordedBy(emits') :
          /\ simonState(room)
          /\ p \in activePlayers(room.gameState)
          /\ p \notin hist.recorded
     /\ (/\ exists(room') /\ room'.gameState # NoState
         /\ \/ ~exists(room) \/ room.gameState = NoState
            \/ room'.gameState.round # room.gameState.round)
        => room'.gameState.submissions = << >>]_vars


\* ------------------------------------------------------------------------
\* SpecCountdown: start_game and restart_game against the countdown interval.
\* The host may start up to CountMaxGames countdowns, any player may restart
\* at any moment, and the game then runs on its timers without client input.
\* ------------------------------------------------------------------------
\* the countdown intervals of startCountdown that are running
RunningCountdowns == [t \in Countdowns |-> timers[t]]

CountStartGame ==
  \E p \in IssuedIds :
    /\ AnyOpenSocket
    /\ start_game(p).room # room
         => hist.game + BagCardinality(RunningCountdowns) < CountMaxGames
    /\ Apply(start_game(p))
    /\ ConnFrame

CountNext ==
  \/ HttpCreateRoom
  \/ HttpJoinRoom
  \/ JoinRoomSocket
  \/ CountStartGame
  \/ RestartGame
  \/ CountdownTick
  \/ ShowTimer
  \/ CompleteTimer
  \/ OpenTimer
  \/ SimonTimeout
  \/ FinishTimer
  \/ Elapse

SpecCountdown == Init /\ [][CountNext]_vars

\* C32: each room has at most one countdown in progress at any time, and each
\* start of a game initializes the game state and schedules the first sequence
\* reveal exactly once, for every interleaving of start_game, restart_game and
\* countdown ticks.
C32_OneCountdownOneStart ==
  [][/\ BagCardinality([t \in {x \in BagToSet(timers') : x.kind = "countdown"} |-> timers'[t]]) <= 1
     /\ hist'.game # hist.game
          => /\ room.status = "countdown"
             /\ hist'.game = hist.game + 1
             /\ BagCardinality([t \in {x \in BagToSet(timers') : x.kind = "show"} |-> timers'[t]])
                  = BagCardinality([t \in {x \in BagToSet(timers) : x.kind = "show"} |-> timers[t]]) + 1]_vars


\* ------------------------------------------------------------------------
\* SpecFair: a solo game with every scheduled timer eventually firing.
\* setTimeout and setInterval callbacks run once their delay has passed;
\* clients are under no obligation to send anything.
\* ------------------------------------------------------------------------
TimerFairness ==
  /\ WF_vars(Elapse)
  /\ WF_vars(CountdownTick)
  /\ WF_vars(ShowTimer)
  /\ WF_vars(CompleteTimer)
  /\ WF_vars(OpenTimer)
  /\ WF_vars(SimonTimeout)
  /\ WF_vars(AdvanceTimer)
  /\ WF_vars(FinishTimer)

\* a game of the host alone
FairNext ==
  \/ HttpCreateRoom
  \/ JoinRoomSocket
  \/ RaceStartGame
  \/ CountdownTick
  \/ ShowTimer
  \/ CompleteTimer
  \/ OpenTimer
  \/ SubmitInput
  \/ SubmitSequence
  \/ SimonTimeout
  \/ AdvanceTimer
  \/ FinishTimer
  \/ Elapse

SpecFair == Init /\ [][FairNext]_vars /\ TimerFairness

\* the input phase of round r has just been opened
InputPhaseOpened(r) ==
  \E e \in Range(EventsOf(emits, "simon:input_phase")) : e.round = r

\* the result of round r has just been broadcast
RoundResultOf(r) ==
  /\ exists(room) /\ room.gameState # NoState /\ room.gameState.round = r
  /\ EventsOf(emits, "simon:round_result") # << >>

\* C33: under fair firing of scheduled timers, once a room is active and is
\* not restarted or destroyed, every opened input phase is eventually followed
\* by a round_result for that round, and the room eventually reaches status
\* finished.
C33_EveryInputPhaseResolved ==
  /\ \A r \in 1..(MAX_CYCLES + MaxMessages) : InputPhaseOpened(r) ~> RoundResultOf(r)
  /\ (exists(room) /\ room.status = "active") ~> (exists(room) /\ room.status = "finished")

\* the second half of C33 alone: an active room eventually becomes finished
C33_ActiveRoomFinishes ==
  (exists(room) /\ room.status = "active") ~> (exists(room) /\ room.status = "finished")


\* ------------------------------------------------------------------------
\* Claims on scores and the end of the game (Spec)
\* ------------------------------------------------------------------------
RECURSIVE SumOver(_, _)
\* the sum of the scores of the players of the sequence order
SumOver(scores, order) ==
  IF order = << >> THEN 0 ELSE scores[Head(order)] + SumOver(scores, Tail(order))

\* the sum of all players' scores of the game state gs
totalScore(gs) == SumOver(gs.scores, gs.order)

\* C34: at most one point is awarded per round: in every reachable game state
\* the sum of all players' scores is at most the current round number, and
\* each score only ever changes by +1.
C34_OnePointPerRound ==
  [][(exists(room') /\ room'.gameState # NoState) =>
       /\ totalScore(room'.gameState) <= room'.gameState.round
       /\ (exists(room) /\ room.gameState # NoState /\ hist'.game = hist.game) =>
            \A p \in PlayerIds(room'.gameState) :
               room'.gameState.scores[p] \in {room.gameState.scores[p],
                                               room.gameState.scores[p] + 1}]_vars


\* C35: simon:game_finished is emitted at most once per game, for every
\* interleaving of taps, the timeout callback and the delayed finish callbacks
\* (no restart happens in Spec, so a finished room has had its emission).
C35_FinishedOnce ==
  [][EventsOf(emits', "simon:game_finished") # << >> =>
       /\ Len(EventsOf(emits', "simon:game_finished")) = 1
       /\ exists(room) /\ room.status # "finished"]_vars


\* ------------------------------------------------------------------------
\* SpecEndgame: the last round of a game of EndgamePlayers players.  Init is
\* the moment the input phase of round MAX_CYCLES opens after four rounds that
\* every player completed in time: everybody is playing, one point was awarded
\* in each earlier round, the map of submissions is empty and the deadline of
\* the round is the registered timeout.  The clients have EndgameMessages
\* accepted taps or submissions left.
\* ------------------------------------------------------------------------
EndgameDeadline ==
  After(TIMEOUT_MS, [kind |-> "deadline", game |-> 1, round |-> MAX_CYCLES])

EndgameInit ==
  /\ \E now \in Seeds, opened \in Times :
       LET g == generateSequence(MAX_CYCLES, now)
           base == initializeSimonGame(EngineRoom(EndgamePlayers, NoState).players, now)
       IN /\ sequenceSeed = g[2]
          /\ \E sc \in [1..EndgamePlayers -> 0..(MAX_CYCLES - 1)] :
               /\ SumOver(sc, base.order) = MAX_CYCLES - 1
               /\ room = EngineRoom(EndgamePlayers,
                           [base EXCEPT !.sequence = g[1],
                                        !.round = MAX_CYCLES,
                                        !.phase = "player_input",
                                        !.timeoutAt = opened + TIMEOUT_MS,
                                        !.timerStartedAt = opened,
                                        !.scores = sc])
          /\ hist = [NoHist EXCEPT !.nextId = EndgamePlayers + 1,
                                   !.game = 1,
                                   !.results = [r \in 1..(MAX_CYCLES - 1) |-> 1],
                                   !.messages = MaxMessages - EndgameMessages,
                                   !.seed = now]
  /\ sockets = [i \in 1..EndgamePlayers |-> [open |-> TRUE, playerId |-> i, rejoined |-> FALSE]]
  /\ timers = SetToBag({EndgameDeadline})
  /\ simonTimeouts = Handle(EndgameDeadline)
  /\ dtimers = EmptyBag
  /\ disconnectTimeouts = << >>
  /\ emits = << >>
  /\ call = NoCall
  /\ peer = NoRoom
  /\ clock = 0

EndgameNext ==
  \/ SubmitInput
  \/ SubmitSequence
  \/ SimonTimeout
  \/ FinishTimer
  \/ Elapse

SpecEndgame == EndgameInit /\ [][EndgameNext]_vars

\* the playing players of the room's game without an entry in its current round
StillToSubmit(r, h) == {p \in activePlayers(r.gameState) : p \notin h.recorded}

\* C36: the game is never finished in the middle of an open round:
\* simon:game_finished is never emitted, and the room never becomes finished,
\* while two or more players have status playing and have not yet submitted
\* for the current round.
C36_NoFinishMidRound ==
  [][(\/ EventsOf(emits', "simon:game_finished") # << >>
      \/ exists(room) /\ exists(room') /\ room.status # "finished" /\ room'.status = "finished")
       => (room'.gameState # NoState => Cardinality(StillToSubmit(room', hist')) < 2)]_vars


\* C37: the winner of a round is always a player whose status is playing after
\* that round is processed; consequently the score of a player never increases
\* after that player has been eliminated.
C37_WinnerIsPlaying ==
  [][/\ \A rr \in Range(EventsOf(emits', "simon:round_result")) :
          rr.roundWinner # NoCall =>
            /\ room'.gameState # NoState
            /\ rr.roundWinner.playerId \in activePlayers(room'.gameState)
     /\ (/\ exists(room) /\ room.gameState # NoState
         /\ exists(room') /\ room'.gameState # NoState
         /\ hist'.game = hist.game) =>
          \A p \in PlayerIds(room.gameState) \ activePlayers(room.gameState) :
             room'.gameState.scores[p] = room.gameState.scores[p]]_vars

\* C37 witness: a round of a two-player game was just processed, its winner
\* is playing and the other player, who scored in an earlier round, is
\* eliminated and keeps that score
C37_Witness ==
  /\ simonState(room)
  /\ \E rr \in Range(EventsOf(emits, "simon:round_result")) :
       /\ rr.roundWinner # NoCall
       /\ rr.roundWinner.playerId \in activePlayers(room.gameState)
       /\ \E q \in PlayerIds(room.gameState) \ activePlayers(room.gameState) :
             room.gameState.scores[q] >= 1


\* ------------------------------------------------------------------------
\* Claims on the connected flag (SpecGrace)
\* ------------------------------------------------------------------------
\* the connection recorded as the current one of player p in room r is open
currentConnectionLive(r, p) ==
  /\ hasPlayer(r, p)
  /\ getPlayer(r, p).socketId \in DOMAIN sockets
  /\ sockets[getPlayer(r, p).socketId].open

\* C38: a player whose current connection is live is never marked
\* disconnected: when an older connection of a player drops after a newer
\* connection id has been bound to that player, the disconnect buffer timer of
\* the older connection does not set the player's connected flag to false or
\* clear the socket id.
C38_LivePlayerStaysConnected ==
  [][\A p \in IssuedIds :
       (currentConnectionLive(room, p) /\ hasPlayer(room', p) /\ sockets' = sockets)
          => /\ getPlayer(room', p).connected
             /\ getPlayer(room', p).socketId = getPlayer(room, p).socketId]_vars


\* ------------------------------------------------------------------------
\* Claims on the finished room (Spec)
\* ------------------------------------------------------------------------
\* C39: once a room's status is finished its game state is frozen until a
\* restart: no tap, legacy submission, timeout callback or delayed advance or
\* finish callback changes any score, player status, submission, round or
\* sequence while the status is finished.
C39_FinishedStateFrozen ==
  [][(exists(room) /\ room.status = "finished")
       => /\ exists(room') /\ room'.status = "finished"
          /\ room'.gameState = room.gameState]_vars

\* C39 witness: a solo game finished in round 1 after the round had been won
\* once: the advance callback of that result is gone from the timers and the
\* round is still 1, so it ran against the finished room
C39_Witness ==
  /\ exists(room) /\ room.status = "finished" /\ room.gameState # NoState
  /\ PlayerIds(room.gameState) = {1}
  /\ room.gameState.round = 1
  /\ room.gameState.scores[1] = 1
  /\ hist.results = (1 :> 1)
  /\ ~\E t \in BagToSet(timers) : t.kind = "advance"

====
